---- MODULE Spec2Model ----
(***************************************************************************)
(* A model of the parsing engine of quantumatic/ry: the two-token parse    *)
(* state (ry_parser/src/lib.rs), the precedence table (ry_ast/src/token.rs)*)
(* the precedence-climbing expression parser (ry_parser/src/expression.rs) *)
(* the statement/block parser (stellar_parser/src/statement.rs) and the    *)
(* string interner the lexer is given (stellar_interner/src/lib.rs).       *)
(*                                                                         *)
(* A source file is the sequence `tokens` of raw token kinds the lexer     *)
(* produces for it (comments included, the final end-of-file excluded).    *)
(* A token is [raw, loc]: its kind and its place in that sequence, which   *)
(* stands for its span.  Every parser is an operator from a parse state    *)
(* record to [st, ok, val]: the state after the call, whether the result   *)
(* is Some, and the tree.  A text is a sequence of characters; the         *)
(* interner keeps the texts end to end in one buffer.                      *)
(***************************************************************************)
EXTENDS Integers, Sequences, FiniteSets, TLC

VARIABLES
    tokens,         \* the lexer's input: the raw kinds of the file, in order
    lexer,          \* Lexer: the index of the next raw token it will scan
    current_token,  \* ParseState::current_token
    next_token,     \* ParseState::next_token
    diagnostics,    \* ParseState::diagnostics
    advanced,       \* history: advance() has run at least once
    output,         \* history: the last call, its arguments and its result
    interner,       \* Interner<S>: dedup, backend.ends, backend.storage
    issued,         \* history: the <<text, symbol>> pairs get_or_intern returned
    lock,           \* RwLock of the process-wide interner: writer and readers
    threads,        \* the threads that use the process-wide interner
    storage,        \* InMemoryFileStorage::storage: the files by path ID
    disk,           \* the file system: the contents of the paths that can be read
    module,         \* Module::items, as given to build_module_context_from_ast
    context         \* the ModuleContext built from them

vars == <<tokens, lexer, current_token, next_token, diagnostics, advanced, output,
          interner, issued, lock, threads, storage, disk, module, context>>

\* The state of the passes that follow the parser.
compiler_vars == <<storage, disk, module, context>>

(***************************************************************************)
(* Bounds of the model.                                                    *)
(***************************************************************************)
MaxLen == 3
MaxParseLen == 3
MaxFailures == 2
MaxParseFailures == 1

(***************************************************************************)
(* Token model.                                                            *)
(***************************************************************************)
EndOfFile == "EndOfFile"
Error == "Error"
Comment == "Comment"
GlobalDocComment == "GlobalDocComment"
LocalDocComment == "LocalDocComment"
Identifier == "Identifier"

LiteralKinds ==
    {"IntegerLiteral", "FloatLiteral", "StringLiteral", "CharLiteral", "true", "false"}

Keywords ==
    {"as", "defer", "else", "enum", "for", "fun", "if", "pub", "return", "struct",
     "type", "let", "where", "while", "match", "import", "break", "continue", "dyn",
     "loop", "interface", "implements"}

Punctuators ==
    {"=>", "&", "&=", "&&", "*", "**", "*=", "@", "!", "}", "]", ")", ":", ",", ".",
     "..", "=", "==", ">", ">=", "<<", "<", "<=", "-", "-=", "--", "~", "!=", "{",
     "[", "(", "|", "|=", "||", "%", "%=", "+", "+=", "++", "?", ">>", ";", "/",
     "/=", "^", "^=", "#"}

RawToken ==
    LiteralKinds \cup Keywords \cup Punctuators
        \cup {Identifier, Comment, GlobalDocComment, LocalDocComment, EndOfFile, Error}

(***************************************************************************)
(* Precedence levels, lowest to highest.                                   *)
(***************************************************************************)
Lowest == 0
As == 1
DoubleOr == 2
DoubleAmpersand == 3
Or == 4
Xor == 5
Assign == 6
Comparison == 7
Shift == 8
GenericArgument == 9
Sum == 10
Product == 11
Mod == 12
Call == 13
Field == 14
Unary == 15
Struct == 16

\* map_precedences!: impl From<Punctuator> for Precedence
PunctuatorPrecedence(p) ==
    CASE p = "||" -> DoubleOr
      [] p = "&&" -> DoubleAmpersand
      [] p = "|" -> Or
      [] p = "^" -> Xor
      [] p \in {"=", "+=", "-=", "*=", "/=", "|=", "^=", "%="} -> Assign
      [] p \in {"==", "!=", "<", "<=", ">", ">="} -> Comparison
      [] p \in {"<<", ">>"} -> Shift
      [] p = "[" -> GenericArgument
      [] p \in {"+", "-"} -> Sum
      [] p \in {"*", "/"} -> Product
      [] p = "%" -> Mod
      [] p = "(" -> Call
      [] p = "." -> Field
      [] p \in {"~", "++", "--", "!", "?"} -> Unary
      [] p = "{" -> Struct
      [] OTHER -> Lowest

\* The conversion as it would be without the arm of the keyword `as`.
to_precedence_punctuators_only(raw) ==
    IF raw \in Punctuators THEN PunctuatorPrecedence(raw) ELSE Lowest

\* impl From<RawToken> for Precedence
to_precedence(raw) ==
    IF raw \in Punctuators THEN PunctuatorPrecedence(raw)
    ELSE IF raw = "as" THEN As
    ELSE Lowest

\* RawToken::binary_operator, prefix_operator, postfix_operator
binary_operator(raw) ==
    raw \in {"+=", "+", "-=", "-", "**", "*=", "*", "/=", "/", "!=", ">>", "<<",
             "<=", "<", ">=", ">", "==", "=", "|", "&", "||", "&&", "|=", "&=",
             "%", "%=", "^", "^="}

prefix_operator(raw) == raw \in {"!", "~", "++", "--", "-", "+"}

postfix_operator(raw) == raw \in {"?", "++", "--"}

(***************************************************************************)
(* Lexer.                                                                  *)
(***************************************************************************)
Token(raw, loc) == [raw |-> raw, loc |-> loc]

\* The token the lexer scans at raw index i; end-of-file from the end on.
TokenAt(src, i) ==
    IF i <= Len(src) THEN Token(src[i], i) ELSE Token(EndOfFile, Len(src) + 1)

RECURSIVE SkipComments(_, _)
SkipComments(src, i) ==
    IF i <= Len(src) /\ src[i] = Comment THEN SkipComments(src, i + 1) ELSE i

\* Lexer::next_no_comments: the next token that is not a plain comment, and
\* the lexer's place after it.
next_no_comments(src, lx) ==
    LET i == SkipComments(src, lx)
    IN  [token |-> TokenAt(src, i),
         lexer |-> IF i <= Len(src) THEN i + 1 ELSE Len(src) + 1]

(***************************************************************************)
(* Diagnostics.                                                            *)
(***************************************************************************)
NoOffset == -1

LexErrorDiagnostic(token) ==
    [code |-> "E000", got |-> token, expected |-> <<>>, node |-> "",
     offset |-> NoOffset]

UnexpectedTokenError(got, expected, node) ==
    [code |-> "E001", got |-> got, expected |-> expected, node |-> node,
     offset |-> NoOffset]

\* ByteOffset::next_byte_location_at: the place right after the offset.
next_byte_location_at(offset) == offset + 1

\* UnexpectedTokenDiagnostic::build: the report of an unexpected token.  A
\* formatted text is the record of the values it interpolates.
build(d) ==
    [code |-> "E001",
     message |-> [expected |-> d.expected, found |-> d.got.raw],
     labels |->
        IF d.offset # NoOffset
        THEN <<[style |-> "secondary", location |-> next_byte_location_at(d.offset),
                message |-> [expected |-> d.expected]],
               [style |-> "primary", location |-> d.got.loc,
                message |-> [found |-> d.got.raw]]>>
        ELSE <<[style |-> "primary", location |-> d.got.loc,
                message |-> [expected |-> d.expected, node |-> d.node]]>>]

(***************************************************************************)
(* ParseState.  A state record st holds the fields of the struct.          *)
(***************************************************************************)
\* ParseState::check_next_token
check_next_token(st) ==
    IF st.next_token.raw = Error
    THEN [st EXCEPT !.diagnostics = Append(@, LexErrorDiagnostic(st.next_token))]
    ELSE st

\* ParseState::new
new(src) ==
    LET first == next_no_comments(src, 1)
    IN  check_next_token(
            [lexer |-> first.lexer,
             current_token |-> first.token,
             next_token |-> first.token,
             diagnostics |-> <<>>])

\* advance() as it would be with the shift of `next` into `current` left out.
advance_without_shift(src, st) ==
    LET scanned == next_no_comments(src, st.lexer)
    IN  check_next_token(
            [st EXCEPT !.next_token = scanned.token,
                       !.lexer = scanned.lexer])

\* advance() as it would be with the check of the new `next` left out.
advance_without_check(src, st) ==
    LET scanned == next_no_comments(src, st.lexer)
    IN  [st EXCEPT !.current_token = st.next_token,
                   !.next_token = scanned.token,
                   !.lexer = scanned.lexer]

\* ParseState::advance
advance(src, st) ==
    LET scanned == next_no_comments(src, st.lexer)
    IN  check_next_token(
            [st EXCEPT !.current_token = st.next_token,
                       !.next_token = scanned.token,
                       !.lexer = scanned.lexer])

Some(st, val) == [st |-> st, ok |-> TRUE, val |-> val]
None(st) == [st |-> st, ok |-> FALSE, val |-> [kind |-> "None"]]
Unit == [kind |-> "Unit"]

\* expect() as it would be with the diagnostic of the failure left out.
expect_without_diagnostic(st, expected, node) ==
    IF st.next_token.raw = expected THEN Some(st, Unit) ELSE None(st)

\* expect() as it would be if the sink kept only the latest diagnostic.
expect_forgetting(st, expected, node) ==
    IF st.next_token.raw = expected
    THEN Some(st, Unit)
    ELSE None([st EXCEPT !.diagnostics =
                  <<UnexpectedTokenError(st.next_token, <<expected>>, node)>>])

\* ParseState::expect
expect(st, expected, node) ==
    IF st.next_token.raw = expected
    THEN Some(st, Unit)
    ELSE None([st EXCEPT !.diagnostics =
                  Append(@, UnexpectedTokenError(st.next_token, <<expected>>, node))])

\* consume() as it would be with the advance left out.
consume_without_advance(src, st, expected, node) ==
    expect(st, expected, node)

\* ParseState::consume
consume(src, st, expected, node) ==
    LET e == expect(st, expected, node)
    IN  IF e.ok THEN Some(advance(src, e.st), Unit) ELSE e

\* ParseState::consume_identifier
consume_identifier(src, st, node) ==
    IF st.next_token.raw = Identifier
    THEN Some(advance(src, st),
              [kind |-> "IdentifierAst",
               span |-> <<st.next_token.loc, st.next_token.loc>>])
    ELSE None([st EXCEPT !.diagnostics =
                  Append(@, UnexpectedTokenError(st.next_token, <<"identifier">>, node))])

\* source_file.source.index(span): the text of a token is told by its place.
TextAt(token) == <<token.loc>>

\* The loop of consume_module_docstring and consume_local_docstring: advance
\* and push the text of `current` while `next` is a doc comment of the kind.
RECURSIVE DocstringLoop(_, _, _, _)
DocstringLoop(src, st, kind, string) ==
    IF st.next_token.raw = kind
    THEN LET after == advance(src, st)
         IN  DocstringLoop(src, after, kind, string \o TextAt(after.current_token))
    ELSE Some(st, string)

\* consume_module_docstring as it would be if it took one line only.
consume_module_docstring_once(src, st) ==
    IF st.next_token.raw = GlobalDocComment
    THEN LET after == advance(src, st)
         IN  Some(after, TextAt(after.current_token))
    ELSE None(st)

\* ParseState::consume_module_docstring
consume_module_docstring(src, st) ==
    IF st.next_token.raw = GlobalDocComment
    THEN DocstringLoop(src, st, GlobalDocComment, <<>>)
    ELSE None(st)

\* ParseState::consume_local_docstring
consume_local_docstring(src, st) ==
    IF st.next_token.raw = LocalDocComment
    THEN DocstringLoop(src, st, LocalDocComment, <<>>)
    ELSE None(st)

(***************************************************************************)
(* Trees.  A span is <<start, end>>: the place of the first token and the  *)
(* place of the last token it covers.                                      *)
(***************************************************************************)
Span(start, end) == <<start, end>>
start_of(token) == token.loc
end_of(token) == token.loc
NoneValue == [kind |-> "None"]
SomeValue(v) == [kind |-> "Some", value |-> v]
List(items) == [kind |-> "List", items |-> items]

\* On Some continue with the rest, on None return it: the `?` operator.
Failed(r) == None(r.st)

(***************************************************************************)
(* Sub-parsers of literal.rs, type.rs, pattern.rs and items.rs.            *)
(***************************************************************************)
\* LiteralParser: called with a literal in `next`.
LiteralParser(src, st) ==
    Some(advance(src, st),
         [kind |-> "Literal", span |-> Span(start_of(st.next_token), end_of(st.next_token)),
          raw |-> st.next_token.raw])

\* TypeParser: a type is a name.
TypeParser(src, st) ==
    LET name == consume_identifier(src, st, "type")
    IN  IF name.ok
        THEN Some(name.st, [kind |-> "Type", span |-> name.val.span])
        ELSE Failed(name)

\* PatternParser: a pattern is a name or a literal.
PatternParser(src, st) ==
    IF st.next_token.raw \in LiteralKinds
    THEN LET lit == LiteralParser(src, st)
         IN  Some(lit.st, [kind |-> "LiteralPattern", span |-> lit.val.span])
    ELSE LET name == consume_identifier(src, st, "pattern")
         IN  IF name.ok
             THEN Some(name.st, [kind |-> "IdentifierPattern", span |-> name.val.span])
             ELSE Failed(name)

\* FunctionParameterParser: name [: type].
FunctionParameterParser(src, st) ==
    LET name == consume_identifier(src, st, "function parameter")
    IN  IF ~name.ok THEN Failed(name)
        ELSE IF name.st.next_token.raw = ":"
        THEN LET ty == TypeParser(src, advance(src, name.st))
             IN  IF ty.ok
                 THEN Some(ty.st, [kind |-> "FunctionParameter", name |-> name.val,
                                   ty |-> SomeValue(ty.val)])
                 ELSE Failed(ty)
        ELSE Some(name.st, [kind |-> "FunctionParameter", name |-> name.val,
                            ty |-> NoneValue])

(***************************************************************************)
(* The expression parser, the list combinator and the statement parser     *)
(* call one another.                                                       *)
(***************************************************************************)
RECURSIVE parse_using(_, _)


\* parse_list! as it would be if a separator had to be followed by an element.
parse_list_strict(src, st, node, closing, element, items) ==
    IF st.next_token.raw = closing /\ items = <<>> THEN Some(st, List(items))
    ELSE IF st.next_token.raw = EndOfFile
    THEN None([st EXCEPT !.diagnostics =
                  Append(@, UnexpectedTokenError(st.next_token, <<closing>>, node))])
    ELSE LET e == parse_using("ListElement", <<src, st, element>>)
         IN  IF ~e.ok THEN Failed(e)
             ELSE IF e.st.next_token.raw = ","
             THEN parse_using("parse_list",
                      <<src, advance(src, e.st), node, closing, element,
                        Append(items, e.val)>>)
             ELSE LET closed == expect(e.st, closing, node)
                  IN  IF closed.ok THEN Some(e.st, List(Append(items, e.val)))
                      ELSE Failed(closed)

\* parse_list!: elements until the closing delimiter, which stays in `next`.
parse_list(src, st, node, closing, element, items) ==
    IF st.next_token.raw = closing THEN Some(st, List(items))
    ELSE IF st.next_token.raw = EndOfFile
    THEN None([st EXCEPT !.diagnostics =
                  Append(@, UnexpectedTokenError(st.next_token, <<closing>>, node))])
    ELSE LET e == parse_using("ListElement", <<src, st, element>>)
         IN  IF ~e.ok THEN Failed(e)
             ELSE IF e.st.next_token.raw = ","
             THEN parse_using("parse_list", <<src, advance(src, e.st), node, closing, element,
                             Append(items, e.val)>>)
             ELSE LET closed == expect(e.st, closing, node)
                  IN  IF closed.ok THEN Some(e.st, List(Append(items, e.val)))
                      ELSE Failed(closed)

\* GenericArgumentsParser: `[` types `]`.
GenericArgumentsParser(src, st) ==
    LET open == consume(src, st, "[", "generic arguments")
    IN  IF ~open.ok THEN Failed(open)
        ELSE LET types == parse_using("parse_list",
                              <<src, open.st, "generic arguments", "]", "type", <<>>>>)
             IN  IF ~types.ok THEN Failed(types)
                 ELSE Some(advance(src, types.st), types.val)

\* MatchExpressionUnitParser
MatchExpressionUnitParser(src, st) ==
    LET left == PatternParser(src, st)
    IN  IF ~left.ok THEN Failed(left)
        ELSE LET arrow == consume(src, left.st, "=>", "match expression unit")
             IN  IF ~arrow.ok THEN Failed(arrow)
                 ELSE LET right == parse_using("ExpressionParser",
                                       <<src, arrow.st, Lowest, FALSE>>)
                      IN  IF ~right.ok THEN Failed(right)
                          ELSE Some(right.st, [kind |-> "MatchExpressionItem",
                                               left |-> left.val, right |-> right.val])

\* StructExpressionUnitParser
StructExpressionUnitParser(src, st) ==
    LET name == consume_identifier(src, st, "struct field")
    IN  IF ~name.ok THEN Failed(name)
        ELSE IF name.st.next_token.raw = ":"
        THEN LET value == parse_using("ExpressionParser",
                              <<src, advance(src, name.st), Lowest, FALSE>>)
             IN  IF ~value.ok THEN Failed(value)
                 ELSE Some(value.st, [kind |-> "StructExpressionItem", name |-> name.val,
                                      value |-> SomeValue(value.val)])
        ELSE Some(name.st, [kind |-> "StructExpressionItem", name |-> name.val,
                            value |-> NoneValue])

\* The element-parsing closures handed to parse_list!.
ListElement(src, st, element) ==
    CASE element = "expression" -> parse_using("ExpressionParser", <<src, st, Lowest, FALSE>>)
      [] element = "type" -> TypeParser(src, st)
      [] element = "match unit" -> parse_using("MatchExpressionUnitParser", <<src, st>>)
      [] element = "struct unit" -> parse_using("StructExpressionUnitParser", <<src, st>>)
      [] element = "function parameter" -> FunctionParameterParser(src, st)

\* WhileExpressionParser
WhileExpressionParser(src, st) ==
    LET start == start_of(st.next_token)
        condition == parse_using("ExpressionParser", <<src, advance(src, st), Lowest, TRUE>>)
    IN  IF ~condition.ok THEN Failed(condition)
        ELSE LET body == parse_using("StatementsBlockParser", <<src, condition.st>>)
             IN  IF ~body.ok THEN Failed(body)
                 ELSE Some(body.st, [kind |-> "While",
                                     span |-> Span(start, end_of(body.st.current_token)),
                                     condition |-> condition.val, body |-> body.val])

\* MatchExpressionBlockParser
MatchExpressionBlockParser(src, st) ==
    LET open == consume(src, st, "{", "match expression block")
    IN  IF ~open.ok THEN Failed(open)
        ELSE LET units == parse_using("parse_list",
                              <<src, open.st, "match expression block", "}",
                                     "match unit", <<>>>>)
             IN  IF ~units.ok THEN Failed(units)
                 ELSE Some(advance(src, units.st), units.val)

\* MatchExpressionParser
MatchExpressionParser(src, st) ==
    LET start == start_of(st.next_token)
        expression == parse_using("ExpressionParser", <<src, advance(src, st), Lowest, TRUE>>)
    IN  IF ~expression.ok THEN Failed(expression)
        ELSE LET block == parse_using("MatchExpressionBlockParser", <<src, expression.st>>)
             IN  IF ~block.ok THEN Failed(block)
                 ELSE Some(block.st, [kind |-> "Match",
                                      span |-> Span(start, end_of(block.st.current_token)),
                                      expression |-> expression.val, block |-> block.val])

\* GenericArgumentsExpressionParser
GenericArgumentsExpressionParser(src, st, start, left) ==
    LET arguments == parse_using("GenericArgumentsParser", <<src, st>>)
    IN  IF ~arguments.ok THEN Failed(arguments)
        ELSE Some(arguments.st,
                  [kind |-> "GenericArguments",
                   span |-> Span(start, end_of(arguments.st.current_token)),
                   left |-> left, arguments |-> arguments.val])

\* PropertyAccessExpressionParser: the span is taken after `.` alone is consumed.
PropertyAccessExpressionParser(src, st, start, left) ==
    LET dot == advance(src, st)
        right == consume_identifier(src, dot, "property")
    IN  IF ~right.ok THEN Failed(right)
        ELSE Some(right.st, [kind |-> "Property",
                             span |-> Span(start, end_of(dot.current_token)),
                             left |-> left, right |-> right.val])

\* The precedence as it would be if the operand were parsed like any expression.
PrefixOperandPrecedence_lowest == Lowest

\* PrefixExpressionParser: the operand is parsed at Unary precedence.
PrefixOperandPrecedence == Unary

PrefixOperandIgnoreStruct(ignore_struct) == ignore_struct

PrefixExpressionParser(src, st, ignore_struct) ==
    LET operator_token == st.next_token
        inner == parse_using("ExpressionParser",
                     <<src, advance(src, st), PrefixOperandPrecedence,
                                  PrefixOperandIgnoreStruct(ignore_struct)>>)
    IN  IF ~inner.ok THEN Failed(inner)
        ELSE Some(inner.st, [kind |-> "Prefix",
                             span |-> Span(start_of(operator_token), inner.val.span[2]),
                             inner |-> inner.val,
                             operator |-> operator_token])

\* PostfixExpressionParser
PostfixExpressionParser(src, st, start, left) ==
    LET after == advance(src, st)
    IN  Some(after, [kind |-> "Postfix",
                     span |-> Span(start, end_of(after.current_token)),
                     inner |-> left, operator |-> after.current_token])

\* ParenthesizedExpressionParser: the inner expression is parsed with struct
\* literals allowed.
ParenthesizedIgnoreStruct == FALSE

ParenthesizedExpressionParser(src, st) ==
    LET start == start_of(st.next_token)
        inner == parse_using("ExpressionParser",
                     <<src, advance(src, st), Lowest, ParenthesizedIgnoreStruct>>)
    IN  IF ~inner.ok THEN Failed(inner)
        ELSE LET close == consume(src, inner.st, ")", "parenthesized expression")
             IN  IF ~close.ok THEN Failed(close)
                 ELSE Some(close.st, [kind |-> "Parenthesized",
                                      span |-> Span(start, inner.val.span[2]),
                                      inner |-> inner.val])

\* The flag as it would be if the conditions were parsed like any expression.
ConditionIgnoreStruct_off == FALSE

\* The flag the conditions of `if` and `while` and the scrutinee of `match` get.
ConditionIgnoreStruct == TRUE

\* IfExpressionParser: the `else` / `else if` loop.
IfElseLoop(src, st, start, if_blocks) ==
    IF st.next_token.raw # "else"
    THEN Some(st, [kind |-> "If", span |-> Span(start, end_of(st.current_token)),
                   if_blocks |-> if_blocks, else |-> NoneValue])
    ELSE LET after_else == advance(src, st)
         IN  IF after_else.next_token.raw # "if"
             THEN LET block == parse_using("StatementsBlockParser", <<src, after_else>>)
                  IN  IF ~block.ok THEN Failed(block)
                      ELSE Some(block.st,
                                [kind |-> "If",
                                 span |-> Span(start, end_of(block.st.current_token)),
                                 if_blocks |-> if_blocks,
                                 else |-> SomeValue(block.val)])
             ELSE LET condition == parse_using("ExpressionParser",
                                       <<src, advance(src, after_else), Lowest,
                                                    ConditionIgnoreStruct>>)
                  IN  IF ~condition.ok THEN Failed(condition)
                      ELSE LET block == parse_using("StatementsBlockParser",
                                            <<src, condition.st>>)
                           IN  IF ~block.ok THEN Failed(block)
                               ELSE parse_using("IfElseLoop", <<src, block.st, start,
                                               Append(if_blocks,
                                                      <<condition.val, block.val>>)>>)

IfExpressionParser(src, st) ==
    LET start == start_of(st.next_token)
        condition == parse_using("ExpressionParser",
                         <<src, advance(src, st), Lowest, ConditionIgnoreStruct>>)
    IN  IF ~condition.ok THEN Failed(condition)
        ELSE LET block == parse_using("StatementsBlockParser", <<src, condition.st>>)
             IN  IF ~block.ok THEN Failed(block)
                 ELSE parse_using("IfElseLoop",
                          <<src, block.st, start, <<<<condition.val, block.val>>>>>>)

\* CastExpressionParser
CastExpressionParser(src, st, start, left) ==
    LET right == TypeParser(src, advance(src, st))
    IN  IF ~right.ok THEN Failed(right)
        ELSE Some(right.st, [kind |-> "As",
                             span |-> Span(start, end_of(right.st.current_token)),
                             left |-> left, right |-> right.val])

\* The call parser as it would be if it advanced twice after the arguments.
CallExpressionParser_skipping(src, st, start, left) ==
    LET arguments == parse_using("parse_list",
                         <<src, advance(src, st), "call arguments list", ")",
                                "expression", <<>>>>)
    IN  IF ~arguments.ok THEN Failed(arguments)
        ELSE LET after == advance(src, advance(src, arguments.st))
             IN  Some(after, [kind |-> "Call",
                              span |-> Span(start, end_of(after.current_token)),
                              left |-> left, arguments |-> arguments.val])

\* CallExpressionParser
CallExpressionParser(src, st, start, left) ==
    LET arguments == parse_using("parse_list",
                         <<src, advance(src, st), "call arguments list", ")",
                                "expression", <<>>>>)
    IN  IF ~arguments.ok THEN Failed(arguments)
        ELSE LET after == advance(src, arguments.st)
             IN  Some(after, [kind |-> "Call",
                              span |-> Span(start, end_of(after.current_token)),
                              left |-> left, arguments |-> arguments.val])

\* The right-hand side as it would be parsed with a defaulted precedence.
BinaryRightPrecedence_default(raw) == Lowest

\* BinaryExpressionParser: the right-hand side is parsed at the operator's own
\* precedence, with the caller's ignore_struct.
BinaryRightPrecedence(raw) == to_precedence(raw)

\* The right-hand side as it would be parsed with a defaulted flag.
BinaryRightIgnoreStruct_default(ignore_struct) == FALSE

BinaryRightIgnoreStruct(ignore_struct) == ignore_struct

BinaryExpressionParser(src, st, start, left, ignore_struct) ==
    LET operator_token == st.next_token
        precedence == BinaryRightPrecedence(st.next_token.raw)
        right == parse_using("ExpressionParser", <<src, advance(src, st), precedence,
                                  BinaryRightIgnoreStruct(ignore_struct)>>)
    IN  IF ~right.ok THEN Failed(right)
        ELSE Some(right.st, [kind |-> "Binary",
                             span |-> Span(start, end_of(right.st.current_token)),
                             left |-> left, right |-> right.val,
                             operator |-> operator_token])

\* ListExpressionParser: `start` is read after `[` is consumed.
ListExpressionParser(src, st) ==
    LET open == advance(src, st)
        start == start_of(open.next_token)
        elements == parse_using("parse_list",
                        <<src, open, "list expression", "]", "expression", <<>>>>)
    IN  IF ~elements.ok THEN Failed(elements)
        ELSE LET after == advance(src, elements.st)
             IN  Some(after, [kind |-> "List",
                              span |-> Span(start, end_of(after.current_token)),
                              elements |-> elements.val])

\* TupleExpressionParser
TupleExpressionParser(src, st) ==
    LET start == start_of(st.next_token)
        open == consume(src, advance(src, st), "(", "tuple expression")
    IN  IF ~open.ok THEN Failed(open)
        ELSE LET elements == parse_using("parse_list", <<src, open.st, "tuple expression", ")",
                                        "expression", <<>>>>)
             IN  IF ~elements.ok THEN Failed(elements)
                 ELSE LET after == advance(src, elements.st)
                      IN  Some(after, [kind |-> "Tuple",
                                       span |-> Span(start, end_of(after.current_token)),
                                       elements |-> elements.val])

\* StructExpressionParser
StructExpressionParser(src, st, start, left) ==
    LET fields == parse_using("parse_list", <<src, advance(src, st), "struct expression", "}",
                             "struct unit", <<>>>>)
    IN  IF ~fields.ok THEN Failed(fields)
        ELSE LET after == advance(src, fields.st)
             IN  Some(after, [kind |-> "Struct",
                              span |-> Span(start, end_of(after.current_token)),
                              left |-> left, fields |-> fields.val])

\* StatementsBlockExpressionParser
StatementsBlockExpressionParser(src, st) ==
    LET start == start_of(st.next_token)
        block == parse_using("StatementsBlockParser", <<src, st>>)
    IN  IF ~block.ok THEN Failed(block)
        ELSE Some(block.st, [kind |-> "StatementsBlock",
                             span |-> Span(start, end_of(block.st.current_token)),
                             block |-> block.val])

\* FunctionExpressionParser
FunctionExpressionParser(src, st) ==
    LET start == start_of(st.next_token)
        parameters == parse_using("parse_list",
                          <<src, advance(src, st), "function expression parameters",
                                 "|", "function parameter", <<>>>>)
    IN  IF ~parameters.ok THEN Failed(parameters)
        ELSE LET after == advance(src, parameters.st)
                 return_type ==
                     IF after.next_token.raw = ":"
                     THEN LET ty == TypeParser(src, advance(src, after))
                          IN  IF ty.ok THEN Some(ty.st, SomeValue(ty.val)) ELSE Failed(ty)
                     ELSE Some(after, NoneValue)
             IN  IF ~return_type.ok THEN Failed(return_type)
                 ELSE LET block == parse_using("StatementsBlockParser", <<src, return_type.st>>)
                      IN  IF ~block.ok THEN Failed(block)
                          ELSE Some(block.st,
                                    [kind |-> "Function",
                                     span |-> Span(start, end_of(block.st.current_token)),
                                     parameters |-> parameters.val,
                                     return_type |-> return_type.val,
                                     block |-> block.val])

PrimaryExpected ==
    <<"integer literal", "float literal", "string literal", "char literal",
      "boolean literal", "#", "|", "(", "{", "[", "identifier", "if", "while", "match">>

\* PrimaryExpressionParser
PrimaryExpressionParser(src, st, ignore_struct) ==
    LET raw == st.next_token.raw
    IN  CASE raw \in LiteralKinds -> LiteralParser(src, st)
          [] raw = Identifier ->
                LET after == advance(src, st)
                IN  Some(after, [kind |-> "Identifier",
                                 span |-> Span(start_of(after.current_token),
                                               end_of(after.current_token))])
          [] raw = "(" -> parse_using("ParenthesizedExpressionParser", <<src, st>>)
          [] raw = "[" -> parse_using("ListExpressionParser", <<src, st>>)
          [] raw = "{" -> parse_using("StatementsBlockExpressionParser", <<src, st>>)
          [] raw = "|" -> parse_using("FunctionExpressionParser", <<src, st>>)
          [] raw = "#" -> parse_using("TupleExpressionParser", <<src, st>>)
          [] raw = "if" -> parse_using("IfExpressionParser", <<src, st>>)
          [] raw = "match" -> parse_using("MatchExpressionParser", <<src, st>>)
          [] raw = "while" -> parse_using("WhileExpressionParser", <<src, st>>)
          [] OTHER ->
                IF prefix_operator(raw)
                THEN parse_using("PrefixExpressionParser", <<src, st, ignore_struct>>)
                ELSE None([st EXCEPT !.diagnostics =
                              Append(@, UnexpectedTokenError(st.next_token,
                                                             PrimaryExpected,
                                                             "expression"))])

\* The condition as it would be if the loop went on at an equal precedence.
Continues_inclusive(precedence, raw) == precedence <= to_precedence(raw)

\* The condition of the precedence loop of ExpressionParser.
Continues(precedence, raw) == precedence < to_precedence(raw)

\* The loop as it would be with the test of ignore_struct left out.
StopsAtBrace_never(ignore_struct) == FALSE

\* Whether `{` met in the loop ends the expression instead of opening a struct
\* literal.
StopsAtBrace(ignore_struct) == ignore_struct

\* ExpressionParser: the precedence loop.
ExpressionLoop(src, st, precedence, ignore_struct, start, left) ==
    LET raw == st.next_token.raw
        step ==
            CASE raw = "(" -> parse_using("CallExpressionParser", <<src, st, start, left>>)
              [] raw = "." -> parse_using("PropertyAccessExpressionParser",
                                  <<src, st, start, left>>)
              [] raw = "[" -> parse_using("GenericArgumentsExpressionParser",
                                  <<src, st, start, left>>)
              [] raw = "as" -> parse_using("CastExpressionParser", <<src, st, start, left>>)
              [] raw = "{" -> parse_using("StructExpressionParser", <<src, st, start, left>>)
              [] OTHER ->
                    IF binary_operator(raw)
                    THEN parse_using("BinaryExpressionParser",
                             <<src, st, start, left, ignore_struct>>)
                    ELSE parse_using("PostfixExpressionParser", <<src, st, start, left>>)
    IN  IF ~Continues(precedence, raw) THEN Some(st, left)
        ELSE IF raw = "{" /\ StopsAtBrace(ignore_struct) THEN Some(st, left)
        ELSE IF raw \notin {"(", ".", "[", "as", "{"}
                /\ ~binary_operator(raw) /\ ~postfix_operator(raw)
        THEN Some(st, left)
        ELSE IF ~step.ok THEN Failed(step)
        ELSE parse_using("ExpressionLoop",
                 <<src, step.st, precedence, ignore_struct, start, step.val>>)

\* ExpressionParser
ExpressionParser(src, st, precedence, ignore_struct) ==
    LET start == start_of(st.next_token)
        left == parse_using("PrimaryExpressionParser", <<src, st, ignore_struct>>)
    IN  IF ~left.ok THEN Failed(left)
        ELSE parse_using("ExpressionLoop",
                 <<src, left.st, precedence, ignore_struct, start, left.val>>)

(***************************************************************************)
(* Statements and blocks (stellar_parser/src/statement.rs).                *)
(***************************************************************************)
\* Expression::with_block: the expression ends in a block.
with_block(expression) ==
    expression.kind \in {"If", "While", "Match", "StatementsBlock", "Function"}

\* UnexpectedToken::new(offset, got, expected)
UnexpectedToken(offset, got, expected) ==
    [code |-> "E001", got |-> got, expected |-> <<expected>>, node |-> "",
     offset |-> offset]

Statement(statement, last_expression_in_block) ==
    [kind |-> "StatementParserResult", statement |-> statement,
     last_expression_in_block |-> last_expression_in_block]

\* An expression statement as it would be if an expression with no `;` did not
\* end the block.
ExpressionStatementParser_untailed(src, st) ==
    LET expression == parse_using("ExpressionParser", <<src, st, Lowest, FALSE>>)
        semicolon == ~with_block(expression.val) /\ expression.st.next_token.raw = ";"
    IN  IF ~expression.ok THEN Failed(expression)
        ELSE Some(IF semicolon THEN advance(src, expression.st) ELSE expression.st,
                  Statement([kind |-> "Expression", expression |-> expression.val,
                             has_semicolon |-> semicolon], FALSE))

\* ExpressionStatementParser
ExpressionStatementParser(src, st) ==
    LET expression == parse_using("ExpressionParser", <<src, st, Lowest, FALSE>>)
    IN  IF ~expression.ok THEN Failed(expression)
        ELSE IF with_block(expression.val)
        THEN Some(expression.st,
                  Statement([kind |-> "Expression", expression |-> expression.val,
                             has_semicolon |-> FALSE], FALSE))
        ELSE IF expression.st.next_token.raw = ";"
        THEN Some(advance(src, expression.st),
                  Statement([kind |-> "Expression", expression |-> expression.val,
                             has_semicolon |-> TRUE], FALSE))
        ELSE Some(expression.st,
                  Statement([kind |-> "Expression", expression |-> expression.val,
                             has_semicolon |-> FALSE], TRUE))

\* DeferStatementParser and ReturnStatementParser: keyword expression `;`.
KeywordExpressionStatement(src, st, kind) ==
    LET expression == parse_using("ExpressionParser", <<src, advance(src, st), Lowest, FALSE>>)
    IN  IF ~expression.ok THEN Failed(expression)
        ELSE LET semicolon == consume(src, expression.st, ";", kind)
             IN  IF ~semicolon.ok THEN Failed(semicolon)
                 ELSE Some(semicolon.st, [kind |-> kind, expression |-> expression.val])

DeferStatementParser(src, st) == parse_using("KeywordExpressionStatement", <<src, st, "Defer">>)

\* A return statement as it would be if a missing `;` were tolerated.
ReturnStatementParser_lenient(src, st) ==
    LET expression == parse_using("ExpressionParser", <<src, advance(src, st), Lowest, FALSE>>)
    IN  IF ~expression.ok THEN Failed(expression)
        ELSE Some(IF expression.st.next_token.raw = ";"
                  THEN advance(src, expression.st) ELSE expression.st,
                  [kind |-> "Return", expression |-> expression.val])

ReturnStatementParser(src, st) ==
    parse_using("KeywordExpressionStatement", <<src, st, "Return">>)

\* LetStatementParser
LetStatementParser(src, st) ==
    LET pattern == PatternParser(src, advance(src, st))
    IN  IF ~pattern.ok THEN Failed(pattern)
        ELSE LET ty == IF pattern.st.next_token.raw = ":"
                       THEN LET t == TypeParser(src, advance(src, pattern.st))
                            IN  IF t.ok THEN Some(t.st, SomeValue(t.val)) ELSE Failed(t)
                       ELSE Some(pattern.st, NoneValue)
             IN  IF ~ty.ok THEN Failed(ty)
                 ELSE LET eq == consume(src, ty.st, "=", "Let")
                      IN  IF ~eq.ok THEN Failed(eq)
                          ELSE LET value == parse_using("ExpressionParser",
                                                <<src, eq.st, Lowest, FALSE>>)
                               IN  IF ~value.ok THEN Failed(value)
                                   ELSE LET semicolon == consume(src, value.st, ";", "Let")
                                        IN  IF ~semicolon.ok THEN Failed(semicolon)
                                            ELSE Some(semicolon.st,
                                                      [kind |-> "Let",
                                                       pattern |-> pattern.val,
                                                       value |-> value.val,
                                                       ty |-> ty.val])

\* ContinueStatementParser and BreakStatementParser: keyword `;`.
KeywordStatement(src, st, kind) ==
    LET after == advance(src, st)
        semicolon == consume(src, after, ";", kind)
    IN  IF ~semicolon.ok THEN Failed(semicolon)
        ELSE Some(semicolon.st, [kind |-> kind, location |-> after.current_token.loc])

ContinueStatementParser(src, st) == parse_using("KeywordStatement", <<src, st, "Continue">>)

BreakStatementParser(src, st) == parse_using("KeywordStatement", <<src, st, "Break">>)

\* StatementParser
StatementParser(src, st) ==
    LET raw == st.next_token.raw
        keyword_led ==
            CASE raw = "return" -> parse_using("ReturnStatementParser", <<src, st>>)
              [] raw = "defer" -> parse_using("DeferStatementParser", <<src, st>>)
              [] raw = "let" -> parse_using("LetStatementParser", <<src, st>>)
              [] raw = "continue" -> parse_using("ContinueStatementParser", <<src, st>>)
              [] raw = "break" -> parse_using("BreakStatementParser", <<src, st>>)
    IN  IF raw \in {"return", "defer", "let", "continue", "break"}
        THEN IF keyword_led.ok
             THEN Some(keyword_led.st, Statement(keyword_led.val, FALSE))
             ELSE Failed(keyword_led)
        ELSE parse_using("ExpressionStatementParser", <<src, st>>)

\* The end of the file inside a block as it would be with no diagnostic.
UnclosedBlock_silent(st) == None(st)

\* StatementsBlockParser: the end of the file is met inside the block.
UnclosedBlock(st) ==
    None([st EXCEPT !.diagnostics =
             Append(@, UnexpectedToken(end_of(st.current_token), st.next_token, "}"))])

\* StatementsBlockParser: the statement loop.
StatementsBlockLoop(src, st, block) ==
    LET raw == st.next_token.raw
        closed == consume(src, st, "}", "statements block")
    IN  IF raw = "}"
        THEN Some(closed.st, [kind |-> "Block", statements |-> block])
        ELSE IF raw = EndOfFile
        THEN UnclosedBlock(st)
        ELSE IF raw = ";"
        THEN parse_using("StatementsBlockLoop", <<src, advance(src, st), block>>)
        ELSE LET s == parse_using("StatementParser", <<src, st>>)
             IN  IF ~s.ok THEN Failed(s)
                 ELSE IF s.val.last_expression_in_block
                 THEN LET end == consume(src, s.st, "}", "statements block")
                      IN  IF ~end.ok THEN Failed(end)
                          ELSE Some(end.st, [kind |-> "Block",
                                             statements |-> Append(block, s.val.statement)])
                 ELSE parse_using("StatementsBlockLoop",
                          <<src, s.st, Append(block, s.val.statement)>>)

\* StatementsBlockParser
StatementsBlockParser(src, st) ==
    LET open == consume(src, st, "{", "statements block")
    IN  IF ~open.ok THEN Failed(open)
        ELSE parse_using("StatementsBlockLoop", <<src, open.st, <<>>>>)

\* The loops, one pass at a time.  A pass starts at the head of the loop, where
\* its condition is read, and either leaves the loop or comes back to the head
\* with what it has gathered.
\* The pass comes back to the head of the loop.
Iterates(st, gathered) == [st |-> st, ok |-> TRUE, val |-> gathered, continues |-> TRUE]

\* The pass leaves the loop with the result r.
Exits(r) == [st |-> r.st, ok |-> r.ok, val |-> r.val, continues |-> FALSE]

\* ExpressionParser, up to the head of its loop: the primary expression.
ExpressionHead(src, st, ignore_struct) ==
    LET left == parse_using("PrimaryExpressionParser", <<src, st, ignore_struct>>)
    IN  IF ~left.ok THEN Exits(Failed(left)) ELSE Iterates(left.st, left.val)

\* One pass of the precedence loop of ExpressionParser.
ExpressionIteration(src, st, precedence, ignore_struct, start, left) ==
    LET raw == st.next_token.raw
        step ==
            CASE raw = "(" -> parse_using("CallExpressionParser", <<src, st, start, left>>)
              [] raw = "." -> parse_using("PropertyAccessExpressionParser",
                                  <<src, st, start, left>>)
              [] raw = "[" -> parse_using("GenericArgumentsExpressionParser",
                                  <<src, st, start, left>>)
              [] raw = "as" -> parse_using("CastExpressionParser", <<src, st, start, left>>)
              [] raw = "{" -> parse_using("StructExpressionParser", <<src, st, start, left>>)
              [] OTHER ->
                    IF binary_operator(raw)
                    THEN parse_using("BinaryExpressionParser",
                             <<src, st, start, left, ignore_struct>>)
                    ELSE parse_using("PostfixExpressionParser", <<src, st, start, left>>)
    IN  IF ~Continues(precedence, raw) THEN Exits(Some(st, left))
        ELSE IF raw = "{" /\ StopsAtBrace(ignore_struct) THEN Exits(Some(st, left))
        ELSE IF raw \notin {"(", ".", "[", "as", "{"}
                /\ ~binary_operator(raw) /\ ~postfix_operator(raw)
        THEN Exits(Some(st, left))
        ELSE IF ~step.ok THEN Exits(Failed(step))
        ELSE Iterates(step.st, step.val)

\* IfExpressionParser, up to the head of its loop: `if`, a condition, a block.
IfElseHead(src, st) ==
    LET condition == parse_using("ExpressionParser",
                         <<src, advance(src, st), Lowest, ConditionIgnoreStruct>>)
    IN  IF ~condition.ok THEN Exits(Failed(condition))
        ELSE LET block == parse_using("StatementsBlockParser", <<src, condition.st>>)
             IN  IF ~block.ok THEN Exits(Failed(block))
                 ELSE Iterates(block.st, <<<<condition.val, block.val>>>>)

\* One pass of the `else` loop of IfExpressionParser.
IfElseIteration(src, st, start, if_blocks) ==
    IF st.next_token.raw # "else"
    THEN Exits(Some(st, [kind |-> "If", span |-> Span(start, end_of(st.current_token)),
                         if_blocks |-> if_blocks, else |-> NoneValue]))
    ELSE LET after_else == advance(src, st)
         IN  IF after_else.next_token.raw # "if"
             THEN LET block == parse_using("StatementsBlockParser", <<src, after_else>>)
                  IN  IF ~block.ok THEN Exits(Failed(block))
                      ELSE Exits(Some(block.st,
                                [kind |-> "If",
                                 span |-> Span(start, end_of(block.st.current_token)),
                                 if_blocks |-> if_blocks,
                                 else |-> SomeValue(block.val)]))
             ELSE LET condition == parse_using("ExpressionParser",
                                       <<src, advance(src, after_else), Lowest,
                                                    ConditionIgnoreStruct>>)
                  IN  IF ~condition.ok THEN Exits(Failed(condition))
                      ELSE LET block == parse_using("StatementsBlockParser",
                                            <<src, condition.st>>)
                           IN  IF ~block.ok THEN Exits(Failed(block))
                               ELSE Iterates(block.st,
                                        Append(if_blocks, <<condition.val, block.val>>))

\* One pass of the statement loop as it would be if `;` were left in place.
StatementsBlockIteration_not_skipping(src, st, block) ==
    LET raw == st.next_token.raw
        closed == consume(src, st, "}", "statements block")
    IN  IF raw = "}"
        THEN Exits(Some(closed.st, [kind |-> "Block", statements |-> block]))
        ELSE IF raw = EndOfFile
        THEN Exits(UnclosedBlock(st))
        ELSE IF raw = ";"
        THEN Iterates(st, block)
        ELSE LET s == parse_using("StatementParser", <<src, st>>)
             IN  IF ~s.ok THEN Exits(Failed(s))
                 ELSE IF s.val.last_expression_in_block
                 THEN LET end == consume(src, s.st, "}", "statements block")
                      IN  IF ~end.ok THEN Exits(Failed(end))
                          ELSE Exits(Some(end.st,
                                         [kind |-> "Block",
                                          statements |-> Append(block, s.val.statement)]))
                 ELSE Iterates(s.st, Append(block, s.val.statement))

\* One pass of the statement loop of StatementsBlockParser.
StatementsBlockIteration(src, st, block) ==
    LET raw == st.next_token.raw
        closed == consume(src, st, "}", "statements block")
    IN  IF raw = "}"
        THEN Exits(Some(closed.st, [kind |-> "Block", statements |-> block]))
        ELSE IF raw = EndOfFile
        THEN Exits(UnclosedBlock(st))
        ELSE IF raw = ";"
        THEN Iterates(advance(src, st), block)
        ELSE LET s == parse_using("StatementParser", <<src, st>>)
             IN  IF ~s.ok THEN Exits(Failed(s))
                 ELSE IF s.val.last_expression_in_block
                 THEN LET end == consume(src, s.st, "}", "statements block")
                      IN  IF ~end.ok THEN Exits(Failed(end))
                          ELSE Exits(Some(end.st,
                                         [kind |-> "Block",
                                          statements |-> Append(block, s.val.statement)]))
                 ELSE Iterates(s.st, Append(block, s.val.statement))

\* One pass of the loop of consume_module_docstring and consume_local_docstring.
DocstringIteration(src, st, kind, string) ==
    IF st.next_token.raw = kind
    THEN LET after == advance(src, st)
         IN  Iterates(after, string \o TextAt(after.current_token))
    ELSE Exits(Some(st, string))

\* Parse::parse_using: the call of a parser, by its name, on its fields and the
\* parse state.
parse_using(parser, a) ==
    CASE parser = "ExpressionHead" ->
            ExpressionHead(a[1], a[2], a[3])
      [] parser = "IfElseHead" ->
            IfElseHead(a[1], a[2])
      [] parser = "ExpressionIteration" ->
            ExpressionIteration(a[1], a[2], a[3], a[4], a[5], a[6])
      [] parser = "IfElseIteration" ->
            IfElseIteration(a[1], a[2], a[3], a[4])
      [] parser = "StatementsBlockIteration" ->
            StatementsBlockIteration(a[1], a[2], a[3])
      [] parser = "parse_list" ->
            parse_list(a[1], a[2], a[3], a[4], a[5], a[6])
      [] parser = "GenericArgumentsParser" ->
            GenericArgumentsParser(a[1], a[2])
      [] parser = "MatchExpressionUnitParser" ->
            MatchExpressionUnitParser(a[1], a[2])
      [] parser = "StructExpressionUnitParser" ->
            StructExpressionUnitParser(a[1], a[2])
      [] parser = "ListElement" ->
            ListElement(a[1], a[2], a[3])
      [] parser = "WhileExpressionParser" ->
            WhileExpressionParser(a[1], a[2])
      [] parser = "MatchExpressionBlockParser" ->
            MatchExpressionBlockParser(a[1], a[2])
      [] parser = "MatchExpressionParser" ->
            MatchExpressionParser(a[1], a[2])
      [] parser = "GenericArgumentsExpressionParser" ->
            GenericArgumentsExpressionParser(a[1], a[2], a[3], a[4])
      [] parser = "PropertyAccessExpressionParser" ->
            PropertyAccessExpressionParser(a[1], a[2], a[3], a[4])
      [] parser = "PrefixExpressionParser" ->
            PrefixExpressionParser(a[1], a[2], a[3])
      [] parser = "PostfixExpressionParser" ->
            PostfixExpressionParser(a[1], a[2], a[3], a[4])
      [] parser = "ParenthesizedExpressionParser" ->
            ParenthesizedExpressionParser(a[1], a[2])
      [] parser = "IfElseLoop" ->
            IfElseLoop(a[1], a[2], a[3], a[4])
      [] parser = "IfExpressionParser" ->
            IfExpressionParser(a[1], a[2])
      [] parser = "CastExpressionParser" ->
            CastExpressionParser(a[1], a[2], a[3], a[4])
      [] parser = "CallExpressionParser" ->
            CallExpressionParser(a[1], a[2], a[3], a[4])
      [] parser = "BinaryExpressionParser" ->
            BinaryExpressionParser(a[1], a[2], a[3], a[4], a[5])
      [] parser = "ListExpressionParser" ->
            ListExpressionParser(a[1], a[2])
      [] parser = "TupleExpressionParser" ->
            TupleExpressionParser(a[1], a[2])
      [] parser = "StructExpressionParser" ->
            StructExpressionParser(a[1], a[2], a[3], a[4])
      [] parser = "StatementsBlockExpressionParser" ->
            StatementsBlockExpressionParser(a[1], a[2])
      [] parser = "FunctionExpressionParser" ->
            FunctionExpressionParser(a[1], a[2])
      [] parser = "PrimaryExpressionParser" ->
            PrimaryExpressionParser(a[1], a[2], a[3])
      [] parser = "ExpressionLoop" ->
            ExpressionLoop(a[1], a[2], a[3], a[4], a[5], a[6])
      [] parser = "ExpressionParser" ->
            ExpressionParser(a[1], a[2], a[3], a[4])
      [] parser = "ExpressionStatementParser" ->
            ExpressionStatementParser(a[1], a[2])
      [] parser = "KeywordExpressionStatement" ->
            KeywordExpressionStatement(a[1], a[2], a[3])
      [] parser = "DeferStatementParser" ->
            DeferStatementParser(a[1], a[2])
      [] parser = "ReturnStatementParser" ->
            ReturnStatementParser(a[1], a[2])
      [] parser = "LetStatementParser" ->
            LetStatementParser(a[1], a[2])
      [] parser = "KeywordStatement" ->
            KeywordStatement(a[1], a[2], a[3])
      [] parser = "ContinueStatementParser" ->
            ContinueStatementParser(a[1], a[2])
      [] parser = "BreakStatementParser" ->
            BreakStatementParser(a[1], a[2])
      [] parser = "StatementParser" ->
            StatementParser(a[1], a[2])
      [] parser = "StatementsBlockLoop" ->
            StatementsBlockLoop(a[1], a[2], a[3])
      [] parser = "StatementsBlockParser" ->
            StatementsBlockParser(a[1], a[2])

(***************************************************************************)
(* The interner (stellar_interner/src/lib.rs).  An interner is a record    *)
(* [S, dedup, ends, storage]: the type of its symbols, the set of the      *)
(* symbols of its hash map, and the two fields of its InternerStorage.     *)
(***************************************************************************)
\* usize is 30 bits wide in the model.
UsizeModulus == 1073741824

wrapping_sub(a, b) == (a - b) % UsizeModulus

\* The types of symbols: Interner<usize>, IdentifierInterner, PathInterner.
SymbolKinds == {"usize", "IdentifierID", "PathID"}

\* SymbolID::into_storage_index.  PathID(0) has no storage index: `self.0 - 1`
\* panics where overflow is checked and wraps where it is not.
Overflows(S, symbol) == S = "PathID" /\ symbol = 0

into_storage_index(S, symbol) ==
    IF S = "PathID" THEN wrapping_sub(symbol, 1) ELSE symbol

\* from_storage_index as it would be if a PathID were its storage index.
from_storage_index_plain(S, index) == index

\* SymbolID::from_storage_index
from_storage_index(S, index) == IF S = "PathID" THEN index + 1 ELSE index

\* hash_value: a hash of the text, with collisions.
hash_value(string) == Len(string) % 2

\* Vec::get, at an index counted from 0
Get(ends, index) ==
    IF index < Len(ends) THEN SomeValue(ends[index + 1]) ELSE NoneValue

\* InternerStorage::span_of
span_of(in, symbol) ==
    LET index == into_storage_index(in.S, symbol)
        end == Get(in.ends, index)
        start == Get(in.ends, wrapping_sub(index, 1))
    IN  IF end.kind = "None" THEN NoneValue
        ELSE SomeValue([start |-> IF start.kind = "None" THEN 0 ELSE start.value,
                        end |-> end.value])

\* InternerStorage::str_at
str_at(in, span) == SubSeq(in.storage, span.start + 1, span.end)

\* resolve as it would be if every span started where the buffer starts.
resolve_from_start(in, symbol) ==
    LET span == span_of(in, symbol)
    IN  IF span.kind = "None" THEN NoneValue
        ELSE SomeValue(SubSeq(in.storage, 1, span.value.end))

\* InternerStorage::resolve
resolve(in, symbol) ==
    LET span == span_of(in, symbol)
    IN  IF span.kind = "None" THEN NoneValue ELSE SomeValue(str_at(in, span.value))

\* InternerStorage::unchecked_resolve, of a symbol of the hash map
unchecked_resolve(in, symbol) == str_at(in, span_of(in, symbol).value)

\* InternerStorage::next_symbol
next_symbol(in) == from_storage_index(in.S, Len(in.ends))

\* InternerStorage::push, in its two writes
push_str(in, string) == [in EXCEPT !.storage = @ \o string]

push_end(in) == [in EXCEPT !.ends = Append(@, Len(in.storage))]

push(in, string) ==
    LET written == push_str(in, string)
    IN  [interner |-> push_end(written), symbol |-> next_symbol(written)]

\* raw_entry().from_hash(hash, eq): the symbols of the hash map with the hash
\* of the text and the text itself.
Entry(in, string) ==
    {symbol \in in.dedup :
        /\ hash_value(unchecked_resolve(in, symbol)) = hash_value(string)
        /\ unchecked_resolve(in, symbol) = string}

\* Interner::get
get(in, string) ==
    IF Entry(in, string) = {} THEN NoneValue
    ELSE SomeValue(CHOOSE symbol \in Entry(in, string) : TRUE)

\* vacant.insert_with_hasher
insert(in, symbol) == [in EXCEPT !.dedup = @ \cup {symbol}]

\* get_or_intern as it would be without the look-up in the hash map.
get_or_intern_always_pushing(in, string) ==
    LET pushed == push(in, string)
    IN  [interner |-> insert(pushed.interner, pushed.symbol), symbol |-> pushed.symbol]

\* Interner::get_or_intern_using, with InternerStorage::intern
get_or_intern(in, string) ==
    IF Entry(in, string) = {}
    THEN LET pushed == push(in, string)
         IN  [interner |-> insert(pushed.interner, pushed.symbol),
              symbol |-> pushed.symbol]
    ELSE [interner |-> in, symbol |-> CHOOSE symbol \in Entry(in, string) : TRUE]

\* Interner::len
len(in) == Cardinality(in.dedup)

\* Interner::new
Interner_new(S) == [S |-> S, dedup |-> {}, ends |-> <<>>, storage |-> <<>>]

\* define_builtin_identifiers!: the builtin identifiers, the symbol of each
\* being its place in the list, counted from 0.
BuiltinIdentifiers ==
    <<<<"_">>, <<"i", "n", "t", "8">>, <<"i", "n", "t", "1", "6">>,
      <<"i", "n", "t", "3", "2">>, <<"i", "n", "t", "6", "4">>,
      <<"u", "i", "n", "t", "8">>, <<"u", "i", "n", "t", "1", "6">>,
      <<"u", "i", "n", "t", "3", "2">>, <<"u", "i", "n", "t", "6", "4">>,
      <<"f", "l", "o", "a", "t", "3", "2">>,
      <<"f", "l", "o", "a", "t", "6", "4">>, <<"i", "s", "i", "z", "e">>,
      <<"u", "s", "i", "z", "e">>, <<"b", "o", "o", "l">>,
      <<"S", "t", "r", "i", "n", "g">>, <<"L", "i", "s", "t">>,
      <<"c", "h", "a", "r">>, <<"s", "e", "l", "f">>, <<"S", "e", "l", "f">>,
      <<"s", "i", "z", "e", "o", "f">>, <<"s", "t", "d">>>>

RECURSIVE InternAll(_, _)
InternAll(in, strings) ==
    IF strings = <<>> THEN in
    ELSE InternAll(get_or_intern(in, Head(strings)).interner, Tail(strings))

\* IdentifierInterner::new
IdentifierInterner_new == InternAll(Interner_new("IdentifierID"), BuiltinIdentifiers)

\* PathInterner::new
PathInterner_new == Interner_new("PathID")

NewInterner(S) ==
    CASE S = "usize" -> Interner_new("usize")
      [] S = "IdentifierID" -> IdentifierInterner_new
      [] S = "PathID" -> PathInterner_new

\* RwLock: no thread writes, no thread reads.
Unlocked == [writer |-> "none", readers |-> {}]

\* The threads that parse files and share the process-wide interner.
Threads == {"parse1", "parse2"}

\* A thread that is in neither IdentifierID::from nor IdentifierID::resolve.
Idle == [pc |-> "idle", op |-> "", text |-> <<>>, symbol |-> 0, known |-> {},
         result |-> NoneValue]

\* RwLock::write is granted when no thread writes and no thread reads.
CanWrite_unguarded(l) == TRUE

CanWrite(l) == l.writer = "none" /\ l.readers = {}

\* RwLock::read is granted when no thread writes.
CanRead(l) == l.writer = "none"

(***************************************************************************)
(* The state machine: the file is chosen, the parse state is constructed,  *)
(* and the operations of the parse state are called in any order.          *)
(***************************************************************************)
state == [lexer |-> lexer, current_token |-> current_token,
          next_token |-> next_token, diagnostics |-> diagnostics]

Becomes(st) ==
    /\ lexer' = st.lexer
    /\ current_token' = st.current_token
    /\ next_token' = st.next_token
    /\ diagnostics' = st.diagnostics
    /\ UNCHANGED <<tokens, interner, issued, lock, threads, compiler_vars>>

RECURSIVE SeqsOver(_, _)
SeqsOver(S, n) ==
    IF n = 0 THEN {<<>>}
    ELSE LET shorter == SeqsOver(S, n - 1)
         IN  shorter \cup {Append(s, x) : s \in {t \in shorter : Len(t) = n - 1}, x \in S}

\* The files of the window specification: every sequence of at most MaxLen
\* tokens of WindowAlphabet.
WindowAlphabet == {Identifier, ";", "}", Error, Comment}

Inputs == SeqsOver(WindowAlphabet, MaxLen)

\* The files of the parser specification.
Operand == <<Identifier>>

TableBinaryOperators ==
    {raw \in Punctuators : binary_operator(raw) /\ to_precedence(raw) > Lowest}

\* a OP1 b OP2 c
PrecedenceInputs ==
    {Operand \o <<op1>> \o Operand \o <<op2>> \o Operand :
        op1 \in TableBinaryOperators, op2 \in TableBinaryOperators}

\* [if | while | match] condition { [y] } [tail]
Heads == {<<>>, <<"if">>, <<"while">>, <<"match">>}

Conditions ==
    {Operand,
     Operand \o <<"+">> \o Operand,
     <<"!">> \o Operand,
     <<"(">> \o Operand \o <<")">>,
     <<"(">> \o Operand \o <<"{", "}", ")">>,
     Operand \o <<"==", "-">> \o Operand}

Bodies == {<<"{", "}">>, <<"{">> \o Operand \o <<"}">>}

BraceInputs == {h \o c \o b : h \in Heads, c \in Conditions, b \in Bodies}

\* { return expression [follower] [rest] }, bare or inside an enclosing construct
Openings == {<<"{">>, <<"{", "{">>, <<"if">> \o Operand \o <<"{">>, <<"(", "{">>}

Returned == {Operand, Operand \o <<"*">> \o Operand}

Followers == {<<>>, <<";">>, <<"}">>, Operand, <<"return">>, <<")">>, <<Error>>}

Rests == {<<>>, <<"}">>, <<";", "}">>, <<"(", "}">>, <<Error, "}">>}

ReturnInputs ==
    {o \o <<"return">> \o e \o f \o r :
        o \in Openings, e \in Returned, f \in Followers, r \in Rests}

\* every sequence of at most MaxParseLen tokens of ParseAlphabet
ParseAlphabet == {Identifier, "(", ")", "{", "}", ";", Error}

ParseInputs ==
    PrecedenceInputs \cup BraceInputs \cup ReturnInputs
        \cup SeqsOver(ParseAlphabet, MaxParseLen)

\* What the history variable `output` records of a call: the operation, the
\* token kind or precedence and flag it was given, the place of `next` and the
\* number of diagnostics when it was called, and what it returned.
Called(op, arg, precedence, ignore_struct, r) ==
    [op |-> op, arg |-> arg, precedence |-> precedence, ignore_struct |-> ignore_struct,
     start |-> next_token.loc, before |-> Len(diagnostics), ok |-> r.ok, val |-> r.val]

\* The call returns r: the parse state becomes r.st.
Returns(op, arg, precedence, ignore_struct, r) ==
    /\ Becomes(r.st)
    /\ advanced' = (\/ advanced
                    \/ r.st.lexer # lexer
                    \/ r.st.current_token # current_token
                    \/ r.st.next_token # next_token)
    /\ output' = Called(op, arg, precedence, ignore_struct, r)

\* The parse state of a file, right after ParseState::new.
ParseStateOf(src) ==
    LET st == new(src)
    IN  /\ tokens = src
        /\ lexer = st.lexer
        /\ current_token = st.current_token
        /\ next_token = st.next_token
        /\ diagnostics = st.diagnostics
        /\ advanced = FALSE
        /\ output = [op |-> "new", arg |-> "", precedence |-> Lowest,
                     ignore_struct |-> FALSE, start |-> 0, before |-> 0, ok |-> TRUE,
                     val |-> Unit]

\* InMemoryFileStorage::new: no file.
NoFiles == [path_id \in {} |-> <<>>]

\* No module has been given to the passes that follow the parser.
NoContext == [kind |-> "None"]

CompilerUnused ==
    /\ storage = NoFiles
    /\ disk = NoFiles
    /\ module = <<>>
    /\ context = NoContext

\* The interner handed to ParseState::new: the parsers do not read it.
InitOf(src) ==
    /\ ParseStateOf(src)
    /\ interner = Interner_new("usize")
    /\ issued = {}
    /\ lock = Unlocked
    /\ threads = [t \in Threads |-> Idle]
    /\ CompilerUnused

Init == \E src \in Inputs : InitOf(src)

\* The structural diagnostics of a sink: the places of its E001 entries.
Structural(ds) == {i \in DOMAIN ds : ds[i].code = "E001"}

\* The runs are bounded: no operation of the window is called once MaxFailures
\* calls have failed, and no parser once MaxParseFailures have.
Room == Cardinality(Structural(diagnostics)) < MaxFailures

ParseRoom == Cardinality(Structural(diagnostics)) < MaxParseFailures

DoAdvance ==
    /\ Room
    /\ Becomes(advance(tokens, state))
    /\ advanced' = TRUE
    /\ output' = Called("advance", "", Lowest, FALSE, Some(state, Unit))

ExpectKinds == {Identifier, ";", "}"}

DoExpect ==
    \E k \in ExpectKinds :
        /\ Room
        /\ Returns("expect", k, Lowest, FALSE, expect(state, k, "node"))

DoConsume ==
    \E k \in ExpectKinds :
        /\ Room
        /\ Returns("consume", k, Lowest, FALSE, consume(tokens, state, k, "node"))

DoConsumeIdentifier ==
    /\ Room
    /\ Returns("consume_identifier", "", Lowest, FALSE,
               consume_identifier(tokens, state, "node"))

\* advance(), as the parsers call it between two parses.
DoParseAdvance ==
    /\ ParseRoom
    /\ Becomes(advance(tokens, state))
    /\ advanced' = TRUE
    /\ output' = Called("advance", "", Lowest, FALSE, Some(state, Unit))

ParsePrecedences == {Lowest, Unary}

DoParseExpression ==
    \E precedence \in ParsePrecedences, ignore_struct \in BOOLEAN :
        /\ ParseRoom
        /\ Returns("ExpressionParser", "", precedence, ignore_struct,
                   parse_using("ExpressionParser",
                               <<tokens, state, precedence, ignore_struct>>))

DoParseStatement ==
    /\ ParseRoom
    /\ Returns("StatementParser", "", Lowest, FALSE,
               parse_using("StatementParser", <<tokens, state>>))

DoParseStatementsBlock ==
    /\ ParseRoom
    /\ Returns("StatementsBlockParser", "", Lowest, FALSE,
               parse_using("StatementsBlockParser", <<tokens, state>>))

Next ==
    \/ DoAdvance
    \/ DoExpect
    \/ DoConsume
    \/ DoConsumeIdentifier

\* The window specification: the operations of ParseState, in any order.
Spec == Init /\ [][Next]_vars

InitParse == \E src \in ParseInputs : InitOf(src)

NextParse ==
    \/ DoParseAdvance
    \/ DoParseExpression
    \/ DoParseStatement
    \/ DoParseStatementsBlock

\* The parser specification: the parsers, called at any token of the file.
SpecParse == InitParse /\ [][NextParse]_vars

(***************************************************************************)
(* The list specification: the list combinator and its callers.            *)
(***************************************************************************)
MaxElements == 2
MaxListLen == 4

\* e1 , e2 , ... , en
RECURSIVE Separated(_)
Separated(es) ==
    IF Len(es) = 1 THEN es[1] ELSE es[1] \o <<",">> \o Separated(Tail(es))

Elements == {Operand, Operand \o <<"+">> \o Operand, <<"(">> \o Operand \o <<")">>}

ElementSeqs == UNION {[1..n -> Elements] : n \in 1..MaxElements}

\* call arguments, list expression, tuple expression
Delimiters ==
    {[open |-> Operand \o <<"(">>, close |-> ")"],
     [open |-> <<"[">>, close |-> "]"],
     [open |-> <<"#", "(">>, close |-> ")"]}

Plain(d, es) == d.open \o Separated(es) \o <<d.close>>

Trailing(d, es) == d.open \o Separated(es) \o <<",", d.close>>

\* two consecutive separators after the k-th element
Doubled(d, es, k) ==
    d.open \o Separated(SubSeq(es, 1, k)) \o <<",", ",">>
        \o (IF k = Len(es) THEN <<>> ELSE Separated(SubSeq(es, k + 1, Len(es))))
        \o <<d.close>>

SeparatorInputs ==
    {Plain(d, es) : d \in Delimiters, es \in ElementSeqs}
        \cup {Trailing(d, es) : d \in Delimiters, es \in ElementSeqs}
        \cup UNION {{Doubled(d, es, k) : k \in 1..Len(es)} :
                       d \in Delimiters, es \in ElementSeqs}

ListAlphabet == {Identifier, "(", ")", ",", "{", "}"}

\* match x { [p => e [, p => e] [,]] [}]
MatchUnit == Operand \o <<"=>">> \o Operand

MatchInputs ==
    {<<"match">> \o Operand \o <<"{">> \o units \o close :
        units \in {<<>>, MatchUnit, MatchUnit \o <<",">>,
                   MatchUnit \o <<",">> \o MatchUnit, MatchUnit \o MatchUnit},
        close \in {<<>>, <<"}">>}}

ListInputs == SeparatorInputs \cup MatchInputs \cup SeqsOver(ListAlphabet, MaxListLen)

InitList == \E src \in ListInputs : InitOf(src)

Closings == {")", "]", "}"}

\* parse_list!, as its callers invoke it: with the closing delimiter and the
\* element closure of the construct.
DoParseList ==
    \E closing \in Closings, element \in {"expression", "struct unit"} :
        /\ ParseRoom
        /\ Returns("parse_list", closing, Lowest, FALSE,
                   parse_using("parse_list",
                       <<tokens, state, "list", closing, element, <<>>>>))

DoListExpression ==
    /\ ParseRoom
    /\ Returns("ExpressionParser", "", Lowest, FALSE,
               parse_using("ExpressionParser", <<tokens, state, Lowest, FALSE>>))

DoListAdvance ==
    /\ ParseRoom
    /\ Becomes(advance(tokens, state))
    /\ advanced' = TRUE
    /\ output' = Called("advance", "", Lowest, FALSE, Some(state, Unit))

NextList ==
    \/ DoListAdvance
    \/ DoListExpression
    \/ DoParseList

SpecList == InitList /\ [][NextList]_vars

(***************************************************************************)
(* The doc-comment specification: the docstring operations of ParseState.  *)
(***************************************************************************)
MaxDocLen == 4

DocAlphabet == {GlobalDocComment, LocalDocComment, Comment, Identifier}

DocInputs == SeqsOver(DocAlphabet, MaxDocLen)

InitDoc == \E src \in DocInputs : InitOf(src)

DoConsumeModuleDocstring ==
    \E docstring \in {consume_module_docstring(tokens, state)} :
        Returns("consume_module_docstring", "", Lowest, FALSE, docstring)

DoConsumeLocalDocstring ==
    \E docstring \in {consume_local_docstring(tokens, state)} :
        Returns("consume_local_docstring", "", Lowest, FALSE, docstring)

DoDocAdvance ==
    /\ Becomes(advance(tokens, state))
    /\ advanced' = TRUE
    /\ output' = Called("advance", "", Lowest, FALSE, Some(state, Unit))

NextDoc ==
    \/ DoDocAdvance
    \/ DoConsumeModuleDocstring
    \/ DoConsumeLocalDocstring

SpecDoc == InitDoc /\ [][NextDoc]_vars

(***************************************************************************)
(* The precedence specification: the conversion of a token kind to its     *)
(* precedence, applied to any kind at any position of the window.          *)
(***************************************************************************)
\* the files of one token, of every kind
KindInputs == {<<raw>> : raw \in RawToken}

InitPrecedence == \E src \in KindInputs : InitOf(src)

\* Precedence::from(raw): the parse state is not touched.
DoPrecedenceFrom ==
    \E raw \in RawToken :
        /\ UNCHANGED <<tokens, lexer, current_token, next_token, diagnostics, advanced,
                       interner, issued, lock, threads, compiler_vars>>
        /\ output' = Called("Precedence::from", raw, to_precedence(raw), FALSE,
                            Some(state, Unit))

DoKindAdvance ==
    /\ Becomes(advance(tokens, state))
    /\ advanced' = TRUE
    /\ output' = Called("advance", "", Lowest, FALSE, Some(state, Unit))

NextPrecedence ==
    \/ DoPrecedenceFrom
    \/ DoKindAdvance

SpecPrecedence == InitPrecedence /\ [][NextPrecedence]_vars

(***************************************************************************)
(* The interner specification: one interner, of any of the three types of  *)
(* symbols, used by one thread.                                            *)
(***************************************************************************)
MaxInterned == 3

\* the texts handed to the interner: the empty one, two texts and the text
\* they make end to end, the first and the last of the builtin identifiers
Texts ==
    {<<>>, <<"a">>, <<"b">>, <<"a", "b">>,
     BuiltinIdentifiers[1], BuiltinIdentifiers[Len(BuiltinIdentifiers)]}

\* the symbols that are asked for: the ones of the storage, the two after them,
\* PathID(0) and a large one
AskedSymbols(in) == 0..(Len(in.ends) + 2) \cup {UsizeModulus - 1}

InitInterner ==
    \E S \in SymbolKinds :
        /\ ParseStateOf(<<>>)
        /\ interner = NewInterner(S)
        /\ issued = {}
        /\ lock = Unlocked
        /\ threads = [t \in Threads |-> Idle]
        /\ CompilerUnused

\* What `output` records of a call of the interner.
CalledInterner(op, arg, val) ==
    [op |-> op, arg |-> arg, precedence |-> Lowest, ignore_struct |-> FALSE,
     start |-> 0, before |-> 0, ok |-> TRUE, val |-> val]

parse_state_vars == <<tokens, lexer, current_token, next_token, diagnostics, advanced>>

\* The runs are bounded: at most MaxInterned texts are handed to get_or_intern.
InternRoom(string) ==
    \/ \E pair \in issued : pair[1] = string
    \/ Cardinality(issued) < MaxInterned

DoGetOrIntern ==
    \E string \in Texts :
        \E interned \in {get_or_intern(interner, string)} :
            /\ InternRoom(string)
            /\ interner' = interned.interner
            /\ issued' = issued \cup {<<string, interned.symbol>>}
            /\ output' = CalledInterner("get_or_intern", string, interned.symbol)
            /\ UNCHANGED <<parse_state_vars, lock, threads, compiler_vars>>

DoGet ==
    \E string \in Texts :
        /\ output' = CalledInterner("get", string, get(interner, string))
        /\ UNCHANGED <<parse_state_vars, interner, issued, lock, threads, compiler_vars>>

\* Interner::resolve.  Of PathID(0) it panics or returns what the wrapped index
\* gives, as the build decides.
DoResolve ==
    \E symbol \in AskedSymbols(interner) :
        \E result \in {resolve(interner, symbol)}
                          \cup (IF Overflows(interner.S, symbol)
                                THEN {[kind |-> "Panic"]} ELSE {}) :
            /\ output' = CalledInterner("resolve", symbol, result)
            /\ UNCHANGED <<parse_state_vars, interner, issued, lock, threads, compiler_vars>>

DoLen ==
    /\ output' = CalledInterner("len", "", len(interner))
    /\ UNCHANGED <<parse_state_vars, interner, issued, lock, threads, compiler_vars>>

NextInterner ==
    \/ DoGetOrIntern
    \/ DoGet
    \/ DoResolve
    \/ DoLen

SpecInterner == InitInterner /\ [][NextInterner]_vars

(***************************************************************************)
(* The process-wide identifier interner: the threads that parse files call *)
(* IdentifierID::from and IdentifierID::resolve on IDENTIFIER_INTERNER, an *)
(* IdentifierInterner behind a read-write lock.  A call of from takes the  *)
(* write lock, looks the text up, and for a new text writes the storage,   *)
(* the ends and the hash map, one after the other; a call of resolve takes *)
(* the read lock and copies the text out.  The steps of the threads        *)
(* interleave freely.                                                      *)
(***************************************************************************)
MaxShared == 2

SharedTexts == {<<"a">>, <<"b">>, <<"a", "b">>, BuiltinIdentifiers[1]}

\* the IDs asked for: two builtin ones, the ones that can be given out, and
\* one more
SharedSymbols ==
    {0, Len(BuiltinIdentifiers) - 1}
        \cup (Len(BuiltinIdentifiers)..(Len(BuiltinIdentifiers) + MaxShared))

InitShared ==
    /\ ParseStateOf(<<>>)
    /\ interner = IdentifierInterner_new
    /\ issued = {}
    /\ lock = Unlocked
    /\ threads = [t \in Threads |-> Idle]
    /\ CompilerUnused

\* The runs are bounded: at most MaxShared new texts are handed to from.
SharedRoom(string) ==
    \/ get(interner, string) # NoneValue
    \/ (Len(interner.ends) - Len(BuiltinIdentifiers))
         + Cardinality({t \in Threads : threads[t].op = "from"}) < MaxShared

\* IdentifierID::from is called.
CallFrom ==
    \E t \in Threads, string \in SharedTexts :
        /\ threads[t].pc = "idle"
        /\ SharedRoom(string)
        /\ threads' = [threads EXCEPT
                          ![t] = [Idle EXCEPT !.pc = "write", !.op = "from", !.text = string]]
        /\ UNCHANGED <<parse_state_vars, output, interner, issued, lock, compiler_vars>>

\* IDENTIFIER_INTERNER.write()
WriteLock ==
    \E t \in Threads :
        /\ threads[t].pc = "write"
        /\ CanWrite(lock)
        /\ lock' = [lock EXCEPT !.writer = t]
        /\ threads' = [threads EXCEPT ![t].pc = "lookup"]
        /\ UNCHANGED <<parse_state_vars, output, interner, issued, compiler_vars>>

\* get_or_intern_using: the look-up in the hash map
Lookup ==
    \E t \in Threads :
        /\ threads[t].pc = "lookup"
        /\ LET entry == get(interner, threads[t].text)
           IN  threads' = IF entry = NoneValue
                          THEN [threads EXCEPT ![t].pc = "push_str"]
                          ELSE [threads EXCEPT ![t].pc = "return", ![t].symbol = entry.value]
        /\ UNCHANGED <<parse_state_vars, output, interner, issued, lock, compiler_vars>>

\* InternerStorage::push: the text is written
PushStr ==
    \E t \in Threads :
        /\ threads[t].pc = "push_str"
        /\ interner' = push_str(interner, threads[t].text)
        /\ threads' = [threads EXCEPT ![t].pc = "push_end"]
        /\ UNCHANGED <<parse_state_vars, output, issued, lock, compiler_vars>>

\* InternerStorage::push: the symbol is taken and the end is written
PushEnd ==
    \E t \in Threads :
        /\ threads[t].pc = "push_end"
        /\ interner' = push_end(interner)
        /\ threads' = [threads EXCEPT ![t].pc = "insert", ![t].symbol = next_symbol(interner)]
        /\ UNCHANGED <<parse_state_vars, output, issued, lock, compiler_vars>>

\* get_or_intern_using: the symbol is put into the hash map
Insert ==
    \E t \in Threads :
        /\ threads[t].pc = "insert"
        /\ interner' = insert(interner, threads[t].symbol)
        /\ threads' = [threads EXCEPT ![t].pc = "return"]
        /\ UNCHANGED <<parse_state_vars, output, issued, lock, compiler_vars>>

\* IdentifierID::from returns: the write lock is released.
ReturnFrom ==
    \E t \in Threads :
        /\ threads[t].pc = "return"
        /\ lock' = [lock EXCEPT !.writer = "none"]
        /\ issued' = issued \cup {<<threads[t].text, threads[t].symbol>>}
        /\ output' = CalledInterner("IdentifierID::from", threads[t].text, threads[t].symbol)
        /\ threads' = [threads EXCEPT ![t] = Idle]
        /\ UNCHANGED <<parse_state_vars, interner, compiler_vars>>

\* IdentifierID::resolve is called; `known` is what the calls of from that
\* returned this ID so far were given.
CallResolve ==
    \E t \in Threads, symbol \in SharedSymbols :
        /\ threads[t].pc = "idle"
        /\ threads' = [threads EXCEPT
                          ![t] = [Idle EXCEPT
                                     !.pc = "read", !.op = "resolve", !.symbol = symbol,
                                     !.known = {pair[1] : pair \in
                                                   {p \in issued : p[2] = symbol}}]]
        /\ UNCHANGED <<parse_state_vars, output, interner, issued, lock, compiler_vars>>

\* IDENTIFIER_INTERNER.read()
ReadLock ==
    \E t \in Threads :
        /\ threads[t].pc = "read"
        /\ CanRead(lock)
        /\ lock' = [lock EXCEPT !.readers = @ \cup {t}]
        /\ threads' = [threads EXCEPT ![t].pc = "resolve_owned"]
        /\ UNCHANGED <<parse_state_vars, output, interner, issued, compiler_vars>>

\* IdentifierInterner::resolve_owned: the text is copied out
ResolveOwned ==
    \E t \in Threads :
        /\ threads[t].pc = "resolve_owned"
        /\ threads' = [threads EXCEPT ![t].pc = "resolved",
                                      ![t].result = resolve(interner, threads[t].symbol)]
        /\ UNCHANGED <<parse_state_vars, output, interner, issued, lock, compiler_vars>>

\* IdentifierID::resolve returns: the read lock is released.
ReturnResolve ==
    \E t \in Threads :
        /\ threads[t].pc = "resolved"
        /\ lock' = [lock EXCEPT !.readers = @ \ {t}]
        /\ output' = CalledInterner("IdentifierID::resolve", threads[t].symbol,
                                    threads[t].result)
        /\ threads' = [threads EXCEPT ![t] = Idle]
        /\ UNCHANGED <<parse_state_vars, interner, issued, compiler_vars>>

NextShared ==
    \/ CallFrom
    \/ WriteLock
    \/ Lookup
    \/ PushStr
    \/ PushEnd
    \/ Insert
    \/ ReturnFrom
    \/ CallResolve
    \/ ReadLock
    \/ ResolveOwned
    \/ ReturnResolve

SpecShared == InitShared /\ [][NextShared]_vars

(***************************************************************************)
(* The file storage (stellar_filesystem/src/in_memory_file_storage.rs): a  *)
(* map from path IDs to the files read so far, `storage`, next to the file *)
(* system `disk`, which gives the contents of the paths that can be read.  *)
(***************************************************************************)
MaxPaths == 2

PathIDs == 1..MaxPaths

Contents == {<<"a">>, <<"b">>}

\* InMemoryFile: the path and the source read from it
InMemoryFile(path_id, source) == [path |-> path_id, source |-> source]

Panic == [kind |-> "Panic"]
IoError == [kind |-> "Err"]
Ok == [kind |-> "Ok"]

\* InMemoryFile::new_from_path_id / InMemoryFile::new_or_panic: the file is
\* read from the file system, when it can be.
Readable(d, path_id) == path_id \in DOMAIN d

new_from_path(d, path_id) == InMemoryFile(path_id, d[path_id])

\* InMemoryFileStorage::add_file
add_file(S, path_id, file) ==
    [p \in DOMAIN S \cup {path_id} |-> IF p = path_id THEN file ELSE S[p]]

\* InMemoryFileStorage::read_and_add_file
read_and_add_file(S, d, path_id) ==
    IF Readable(d, path_id)
    THEN [storage |-> add_file(S, path_id, new_from_path(d, path_id)), val |-> Ok]
    ELSE [storage |-> S, val |-> IoError]

\* InMemoryFileStorage::read_and_add_file_or_panic
read_and_add_file_or_panic(S, d, path_id) ==
    IF Readable(d, path_id)
    THEN [storage |-> add_file(S, path_id, new_from_path(d, path_id)), val |-> Unit]
    ELSE [storage |-> S, val |-> Panic]

contains_key(S, path_id) == path_id \in DOMAIN S

\* InMemoryFileStorage::add_file_if_not_exists
add_file_if_not_exists(S, path_id, file) ==
    IF ~contains_key(S, path_id) THEN add_file(S, path_id, file) ELSE S

\* InMemoryFileStorage::read_and_add_file_if_not_exists
read_and_add_file_if_not_exists(S, d, path_id) ==
    IF ~contains_key(S, path_id)
    THEN read_and_add_file(S, d, path_id)
    ELSE [storage |-> S, val |-> Ok]

\* InMemoryFileStorage::read_and_add_file_if_not_exists_or_panic
read_and_add_file_if_not_exists_or_panic(S, d, path_id) ==
    IF Readable(d, path_id)
    THEN [storage |-> S, val |-> new_from_path(d, path_id)]
    ELSE [storage |-> S, val |-> Panic]

\* InMemoryFileStorage::resolve_file
resolve_file(S, path_id) ==
    IF contains_key(S, path_id) THEN SomeValue(S[path_id]) ELSE NoneValue

Disks == UNION {[ids -> Contents] : ids \in SUBSET PathIDs}

InitStorage ==
    /\ ParseStateOf(<<>>)
    /\ interner = PathInterner_new
    /\ issued = {}
    /\ lock = Unlocked
    /\ threads = [t \in Threads |-> Idle]
    /\ storage = NoFiles
    /\ disk \in Disks
    /\ module = <<>>
    /\ context = NoContext

storage_unchanged ==
    <<parse_state_vars, interner, issued, lock, threads, disk, module, context>>

\* A call of the storage returns r.
StorageReturns(op, path_id, r) ==
    /\ storage' = r.storage
    /\ output' = CalledInterner(op, path_id, r.val)
    /\ UNCHANGED storage_unchanged

DoAddFile ==
    \E path_id \in PathIDs, source \in Contents :
        \E added \in {add_file(storage, path_id, InMemoryFile(path_id, source))} :
            StorageReturns("add_file", path_id, [storage |-> added, val |-> Unit])

DoReadAndAddFile ==
    \E path_id \in PathIDs :
        \E r \in {read_and_add_file(storage, disk, path_id)} :
            StorageReturns("read_and_add_file", path_id, r)

DoReadAndAddFileOrPanic ==
    \E path_id \in PathIDs :
        \E r \in {read_and_add_file_or_panic(storage, disk, path_id)} :
            StorageReturns("read_and_add_file_or_panic", path_id, r)

DoAddFileIfNotExists ==
    \E path_id \in PathIDs, source \in Contents :
        \E added \in {add_file_if_not_exists(storage, path_id,
                                              InMemoryFile(path_id, source))} :
            StorageReturns("add_file_if_not_exists", path_id,
                           [storage |-> added, val |-> Unit])

DoReadAndAddFileIfNotExists ==
    \E path_id \in PathIDs :
        \E r \in {read_and_add_file_if_not_exists(storage, disk, path_id)} :
            StorageReturns("read_and_add_file_if_not_exists", path_id, r)

DoReadAndAddFileIfNotExistsOrPanic ==
    \E path_id \in PathIDs :
        \E r \in {read_and_add_file_if_not_exists_or_panic(storage, disk, path_id)} :
            StorageReturns("read_and_add_file_if_not_exists_or_panic", path_id, r)

DoResolveFile ==
    \E path_id \in PathIDs :
        \E file \in {resolve_file(storage, path_id)} :
            StorageReturns("resolve_file", path_id, [storage |-> storage, val |-> file])

NextStorage ==
    \/ DoAddFile
    \/ DoReadAndAddFile
    \/ DoReadAndAddFileOrPanic
    \/ DoAddFileIfNotExists
    \/ DoReadAndAddFileIfNotExists
    \/ DoReadAndAddFileIfNotExistsOrPanic
    \/ DoResolveFile

SpecStorage == InitStorage /\ [][NextStorage]_vars

(***************************************************************************)
(* Name resolution (ry_name_resolution/src/build_context.rs): the module   *)
(* context is built from the items of a parsed module.  An item is a       *)
(* record [kind, name, location]; its location is its place in the module. *)
(***************************************************************************)
MaxItems == 3

ItemNames == {"f", "g"}

NamedKinds == {"Function", "Struct"}

ItemShapes ==
    {[kind |-> kind, name |-> name] : kind \in NamedKinds, name \in ItemNames}
        \cup {[kind |-> "Impl", name |-> ""], [kind |-> "Import", name |-> ""]}

\* the modules of up to MaxItems items
Modules ==
    UNION {{[i \in 1..n |-> [kind |-> shapes[i].kind, name |-> shapes[i].name,
                             location |-> i]] : shapes \in [1..n -> ItemShapes]}
              : n \in 0..MaxItems}

\* ModuleItem::name_or_panic
name_or_panic(item) == item.name

DefinitionInfo(item) == [location |-> item.location, kind |-> item.kind]

ItemDefinedMultipleTimesDiagnostic(name, first, second) ==
    [diagnostic |-> "ItemDefinedMultipleTimes", name |-> name,
     first |-> first, second |-> second]

NotAnalyzed(item) == [binding |-> "NotAnalyzed", item |-> item]

\* bindings.insert as it would be if it kept the binding the name has.
insert_binding_keeping(bindings, name, data) ==
    IF name \in DOMAIN bindings THEN bindings
    ELSE [n \in DOMAIN bindings \cup {name} |-> IF n = name THEN data ELSE bindings[n]]

\* bindings.insert(name, ..)
insert_binding(bindings, name, data) ==
    [n \in DOMAIN bindings \cup {name} |-> IF n = name THEN data ELSE bindings[n]]

\* the loop over module.items
RECURSIVE BuildContextLoop(_, _, _)
BuildContextLoop(items, ctx, ds) ==
    IF items = <<>> THEN [context |-> ctx, diagnostics |-> ds]
    ELSE LET item == Head(items)
         IN  CASE item.kind = "Impl" ->
                    BuildContextLoop(Tail(items),
                                     [ctx EXCEPT !.implementations = Append(@, item)], ds)
               [] item.kind = "Import" ->
                    BuildContextLoop(Tail(items),
                                     [ctx EXCEPT !.imports = Append(@, item)], ds)
               [] OTHER ->
                    LET name == name_or_panic(item)
                        added ==
                            IF name \in DOMAIN ctx.bindings
                            THEN Append(ds, ItemDefinedMultipleTimesDiagnostic(
                                                name,
                                                DefinitionInfo(ctx.bindings[name].item),
                                                DefinitionInfo(item)))
                            ELSE ds
                    IN  BuildContextLoop(
                            Tail(items),
                            [ctx EXCEPT !.bindings = insert_binding(@, name, NotAnalyzed(item))],
                            added)

build_module_context_from_ast(file_path_id, items, ds) ==
    BuildContextLoop(items,
                     [path_id |-> file_path_id, bindings |-> NoFiles, submodules |-> NoFiles,
                      implementations |-> <<>>, imports |-> <<>>],
                     ds)

InitContext ==
    /\ ParseStateOf(<<>>)
    /\ interner = Interner_new("usize")
    /\ issued = {}
    /\ lock = Unlocked
    /\ threads = [t \in Threads |-> Idle]
    /\ storage = NoFiles
    /\ disk = NoFiles
    /\ module \in Modules
    /\ context = NoContext

\* build_module_context_from_ast is called with the module; the module is
\* moved into the call, so it is called once.
DoBuildModuleContext ==
    \E file_path_id \in PathIDs :
        \E built \in {build_module_context_from_ast(file_path_id, module, diagnostics)} :
            /\ context = NoContext
            /\ context' = built.context
            /\ diagnostics' = built.diagnostics
            /\ output' = CalledInterner("build_module_context_from_ast", file_path_id, Unit)
            /\ UNCHANGED <<tokens, lexer, current_token, next_token, advanced, interner,
                           issued, lock, threads, storage, disk, module>>

NextContext == DoBuildModuleContext

SpecContext == InitContext /\ [][NextContext]_vars

(***************************************************************************)
(* The block specification: the statement and block parsers on files that  *)
(* are blocks: `{`, statements that are complete, a last statement, and    *)
(* what follows it.                                                        *)
(***************************************************************************)
MaxStatements == 2

\* statements after which the statement loop goes on
CompleteUnits ==
    {Operand \o <<";">>, <<";">>, <<"if">> \o Operand \o <<"{", "}">>}

RECURSIVE Concatenations(_, _)
Concatenations(units, n) ==
    IF n = 0 THEN {<<>>}
    ELSE LET shorter == Concatenations(units, n - 1)
         IN  shorter \cup {s \o u : s \in shorter, u \in units}

Prefixes == Concatenations(CompleteUnits, MaxStatements)

Lasts ==
    {<<>>, Operand, Operand \o <<"+">> \o Operand, <<"{", "}">>,
     <<"if">> \o Operand \o <<"{">> \o Operand \o <<"}">>,
     <<"if">> \o Operand \o <<"{", "}", "else", "{", "}", "else">>}

Ends == {<<>>, <<"}">>, Operand, <<")">>, Operand \o <<"}">>, <<"}", "}">>, <<Error>>}

BlockInputs ==
    {<<"{">> \o p \o l \o e : p \in Prefixes, l \in Lasts, e \in Ends}

InitBlock == \E src \in BlockInputs : InitOf(src)

NextBlock ==
    \/ DoParseStatementsBlock
    \/ DoParseStatement
    \/ DoParseAdvance

SpecBlock == InitBlock /\ [][NextBlock]_vars

(***************************************************************************)
(* The if specification: the expression and statement parsers on files     *)
(* that are if chains: if c b, then `else if c b` some times, then perhaps *)
(* `else b` and what follows it.                                           *)
(***************************************************************************)
MaxElseIfs == 1

ChainConditions == {Operand, Operand \o <<"+">> \o Operand}

ChainBlocks == {<<"{", "}">>, <<"{">> \o Operand \o <<"}">>}

\* else if c b
ElseIfs == {<<"else", "if">> \o c \o b : c \in ChainConditions, b \in ChainBlocks}

\* nothing, or else b and what follows it
ChainTails ==
    {<<>>}
        \cup {<<"else">> \o b \o f :
                b \in ChainBlocks,
                f \in {<<>>, <<"else", "{", "}">>,
                       <<"else", "if">> \o Operand \o <<"{", "}">>}}

IfInputs ==
    {<<"if">> \o c \o b \o e \o t :
        c \in ChainConditions, b \in ChainBlocks,
        e \in Concatenations(ElseIfs, MaxElseIfs), t \in ChainTails}

InitIf == \E src \in IfInputs : InitOf(src)

NextIf ==
    \/ DoParseExpression
    \/ DoParseAdvance

SpecIf == InitIf /\ [][NextIf]_vars

(***************************************************************************)
(* Properties of the lookahead window (specification Spec).                *)
(***************************************************************************)
\* The token that follows a token in the comment-free token stream.
Successor(token) == next_no_comments(tokens, token.loc + 1).token

\* The first token of the comment-free token stream.
First == next_no_comments(tokens, 1).token

\* C4, as stated: in every reachable parse state, construction included,
\* `next` is the token immediately after `current` in the comment-free token
\* stream.
LookaheadInvariant == next_token = Successor(current_token)

\* C4, amended: once the window has advanced, `next` is the token immediately
\* after `current` in the comment-free stream; until then both slots hold the
\* first token of the stream; each advance makes the former `next` the new
\* `current` and pulls its successor into `next`; and `current` only ever moves
\* forward, so no token becomes `current` a second time.
LookaheadAfterAdvance ==
    /\ [](advanced => LookaheadInvariant)
    /\ [](~advanced => current_token = First /\ next_token = First)
    /\ [][output'.op = "advance" =>
            /\ current_token' = next_token
            /\ next_token' = Successor(next_token)]_vars
    /\ [][current_token' # current_token =>
            current_token'.loc > current_token.loc]_vars

\* C4 happens: the window has advanced over a comment.
AdvancedOverComment ==
    /\ advanced
    /\ output.op = "advance"
    /\ current_token.raw = Identifier
    /\ next_token.raw = ";"
    /\ next_token.loc = current_token.loc + 2

\* The error tokens that have entered `next`: the window moves through the
\* comment-free stream in order, so they are those up to `next`.
EnteredErrors == {i \in DOMAIN tokens : i <= next_token.loc /\ tokens[i] = Error}

IsLexical(d) == d.code = "E000"

Lexical(ds) == SelectSeq(ds, IsLexical)

\* C5: the lexical diagnostics of the sink are those of the error tokens that
\* have entered `next`, one each, in the order of the tokens; and a lexical
\* diagnostic precedes an unexpected-token diagnostic exactly when its token had
\* entered the window by the time of the failing operation.
ErrorsDiagnosedOnEntry ==
    LET lex == Lexical(diagnostics)
    IN  /\ Len(lex) = Cardinality(EnteredErrors)
        /\ \A i \in DOMAIN lex :
              /\ lex[i].got.raw = Error
              /\ lex[i].got.loc \in EnteredErrors
        /\ \A i, j \in DOMAIN lex : i < j => lex[i].got.loc < lex[j].got.loc
        /\ \A i, j \in DOMAIN diagnostics :
              diagnostics[i].code = "E000" /\ diagnostics[j].code = "E001"
                  => (i < j <=> diagnostics[i].got.loc <= diagnostics[j].got.loc)

\* C5 happens: an error token is diagnosed at construction, an operation fails
\* on it, and a later error token is diagnosed when it enters the window.
ErrorFailureError ==
    /\ Len(diagnostics) = 3
    /\ diagnostics[1].code = "E000"
    /\ diagnostics[2].code = "E001"
    /\ diagnostics[3].code = "E000"
    /\ diagnostics[3].got = next_token

WindowOperations == {"expect", "consume", "consume_identifier"}

\* The kind of token a call of a window operation requires.
Required(call) == IF call.op = "consume_identifier" THEN Identifier ELSE call.arg

\* C6: a call of expect, consume or consume_identifier made when `next` is not
\* of the required kind appends exactly one diagnostic, an E001 whose offending
\* token is `next`, returns the empty result and leaves `current`, `next` and
\* the lexer as they were.
FailurePolicy ==
    [][(output'.op \in WindowOperations /\ next_token.raw # Required(output')) =>
          /\ ~output'.ok
          /\ output'.val = NoneValue
          /\ Len(diagnostics') = Len(diagnostics) + 1
          /\ SubSeq(diagnostics', 1, Len(diagnostics)) = diagnostics
          /\ diagnostics'[Len(diagnostics')].code = "E001"
          /\ diagnostics'[Len(diagnostics')].got = next_token
          /\ current_token' = current_token
          /\ next_token' = next_token
          /\ lexer' = lexer]_vars

\* C6 happens: a consume has failed on an advanced window.
ConsumeFailed ==
    /\ output.op = "consume"
    /\ ~output.ok
    /\ advanced
    /\ output.before = Len(diagnostics) - 1
    /\ diagnostics[Len(diagnostics)].code = "E001"
    /\ diagnostics[Len(diagnostics)].got = next_token

\* The diagnostics after an advance that pulls `pulled` into `next`.
AfterPulling(ds, pulled) ==
    IF pulled.raw = Error THEN Append(ds, LexErrorDiagnostic(pulled)) ELSE ds

\* C7: a call made when `next` is of the required kind succeeds; expect leaves
\* the window, the lexer and the diagnostics as they were; consume and
\* consume_identifier make `next` the new `current` and pull its successor, once,
\* and append no E001; consume_identifier returns the span of the former `next`.
SuccessEffect ==
    [][(output'.op \in WindowOperations /\ next_token.raw = Required(output')) =>
          /\ output'.ok
          /\ output'.op = "expect" =>
                /\ current_token' = current_token
                /\ next_token' = next_token
                /\ lexer' = lexer
                /\ diagnostics' = diagnostics
          /\ output'.op # "expect" =>
                /\ current_token' = next_token
                /\ next_token' = Successor(next_token)
                /\ diagnostics' = AfterPulling(diagnostics, Successor(next_token))
          /\ output'.op = "consume_identifier" =>
                output'.val.span = Span(start_of(next_token), end_of(next_token))]_vars

\* C7 happens: consume_identifier has taken an identifier and moved the window.
IdentifierConsumed ==
    /\ output.op = "consume_identifier"
    /\ output.ok
    /\ current_token.raw = Identifier
    /\ output.val.span = Span(current_token.loc, current_token.loc)
    /\ next_token.loc > current_token.loc

(***************************************************************************)
(* Properties of the parsers (specification SpecParse).                    *)
(***************************************************************************)
ParseOperations == {"ExpressionParser", "StatementParser", "StatementsBlockParser"}

\* The tree of the identifier at place i, and of left OP right with OP at i.
Leaf(i) == [kind |-> "Identifier", span |-> Span(i, i)]

BinaryOf(left, i, right) ==
    [kind |-> "Binary", span |-> Span(left.span[1], right.span[2]),
     left |-> left, right |-> right, operator |-> Token(tokens[i], i)]

\* The file is a OP1 b OP2 c and the last call parsed it from its first token
\* at minimum precedence Lowest.
ParsedTwoOperators ==
    /\ Len(tokens) = 5
    /\ tokens[1] = Identifier /\ tokens[3] = Identifier /\ tokens[5] = Identifier
    /\ tokens[2] \in TableBinaryOperators /\ tokens[4] \in TableBinaryOperators
    /\ output.op = "ExpressionParser"
    /\ output.start = 1
    /\ output.precedence = Lowest

\* C1: a OP1 b OP2 c parsed at Lowest is a OP1 (b OP2 c) when OP2 has the higher
\* precedence and (a OP1 b) OP2 c when OP1 has.
PrecedenceMonotonicity ==
    ParsedTwoOperators =>
        LET p1 == to_precedence(tokens[2])
            p2 == to_precedence(tokens[4])
        IN  /\ p2 > p1 =>
                /\ output.ok
                /\ output.val = BinaryOf(Leaf(1), 2, BinaryOf(Leaf(3), 4, Leaf(5)))
            /\ p2 < p1 =>
                /\ output.ok
                /\ output.val = BinaryOf(BinaryOf(Leaf(1), 2, Leaf(3)), 4, Leaf(5))

\* C1 happens: the second operator has the higher precedence and its operands
\* were bound first.
HigherBoundFirst ==
    /\ ParsedTwoOperators
    /\ to_precedence(tokens[4]) > to_precedence(tokens[2])
    /\ output.ok
    /\ output.val.kind = "Binary"
    /\ output.val.right.kind = "Binary"

\* A struct literal is the result of the loop of the call itself, or the
\* left-hand side it has accumulated.
RECURSIVE SpineHasStruct(_)
SpineHasStruct(t) ==
    \/ t.kind = "Struct"
    \/ /\ t.kind \in {"Call", "Property", "GenericArguments", "As", "Binary"}
       /\ SpineHasStruct(t.left)
    \/ /\ t.kind = "Postfix"
       /\ SpineHasStruct(t.inner)

\* The struct literal that ends an expression, if there is one.
RECURSIVE RightmostStruct(_)
RightmostStruct(t) ==
    CASE t.kind = "Struct" -> t
      [] t.kind = "Binary" -> RightmostStruct(t.right)
      [] t.kind = "Prefix" -> RightmostStruct(t.inner)
      [] OTHER -> NoneValue

\* In a file [if | while | match] condition { [y] }: whether it has the head,
\* the place of the `{` of the body, and the block and the fields { [y] } is.
Headed == tokens[1] \in {"if", "while", "match"}

EmptyBody == tokens[Len(tokens) - 1] = "{"

BodyAt == IF EmptyBody THEN Len(tokens) - 1 ELSE Len(tokens) - 2

BodyBlock ==
    [kind |-> "Block",
     statements |->
        IF EmptyBody THEN <<>>
        ELSE <<[kind |-> "Expression", expression |-> Leaf(Len(tokens) - 1),
                has_semicolon |-> FALSE]>>]

BodyFields ==
    List(IF EmptyBody THEN <<>>
         ELSE <<[kind |-> "StructExpressionItem",
                 name |-> [kind |-> "IdentifierAst",
                           span |-> Span(Len(tokens) - 1, Len(tokens) - 1)],
                 value |-> NoneValue]>>)

\* The condition of an `if` or a `while`, the scrutinee of a `match`.
ConditionOf(t) ==
    CASE t.kind = "If" -> t.if_blocks[1][1]
      [] t.kind = "While" -> t.condition
      [] t.kind = "Match" -> t.expression

\* The last call parsed an expression from the first token of the file.
ParsedFromStart == output.op = "ExpressionParser" /\ output.start = 1

\* C2: a call with ignore_struct set never makes a struct literal of its
\* left-hand side; on condition { .. } it returns the condition with `{` in
\* `next`; `if`, `while` and `match` take { .. } as their body; and a call with
\* ignore_struct unset makes { .. } after an expression a struct literal.
StructLiteralSuppression ==
    /\ (output.op = "ExpressionParser" /\ output.ignore_struct /\ output.ok)
          => ~SpineHasStruct(output.val)
    /\ (tokens \in BraceInputs /\ ~Headed /\ ParsedFromStart
            /\ output.precedence = Lowest /\ output.ignore_struct)
          => /\ output.ok
             /\ next_token = Token("{", BodyAt)
             /\ current_token.loc = BodyAt - 1
             /\ lexer = BodyAt + 1
    /\ (tokens \in BraceInputs /\ Headed /\ ParsedFromStart)
          => IF tokens[1] = "match" /\ ~EmptyBody
             THEN /\ ~output.ok
                  /\ diagnostics[Len(diagnostics)].node = "match expression unit"
                  /\ diagnostics[Len(diagnostics)].got = Token("}", Len(tokens))
             ELSE /\ output.ok
                  /\ output.val.kind =
                        (CASE tokens[1] = "if" -> "If"
                           [] tokens[1] = "while" -> "While"
                           [] tokens[1] = "match" -> "Match")
                  /\ output.val.span = Span(1, Len(tokens))
                  /\ ~SpineHasStruct(ConditionOf(output.val))
                  /\ ConditionOf(output.val).span[1] = 2
                  /\ tokens[1] = "if" =>
                        /\ Len(output.val.if_blocks) = 1
                        /\ output.val.if_blocks[1][2] = BodyBlock
                  /\ tokens[1] = "while" => output.val.body = BodyBlock
                  /\ tokens[1] = "match" => output.val.block = List(<<>>)
    /\ (tokens \in BraceInputs /\ ~Headed /\ ParsedFromStart
            /\ output.precedence = Lowest /\ ~output.ignore_struct)
          => /\ output.ok
             /\ next_token.raw = EndOfFile
             /\ RightmostStruct(output.val).kind = "Struct"
             /\ RightmostStruct(output.val).span[2] = Len(tokens)
             /\ RightmostStruct(output.val).fields = BodyFields

\* C2 happens: `if x { y }` is parsed, x is the condition and { y } the body.
IfTakesBlock ==
    /\ tokens = <<"if", Identifier, "{", Identifier, "}">>
    /\ ParsedFromStart
    /\ output.ok
    /\ output.val.kind = "If"
    /\ output.val.if_blocks[1][1] = Leaf(2)
    /\ output.val.if_blocks[1][2] = BodyBlock

\* No struct literal outside parentheses: the operands reached through binary,
\* prefix and postfix operators and through the left-hand sides included.
RECURSIVE NoStructOutsideParentheses(_)
NoStructOutsideParentheses(t) ==
    CASE t.kind = "Struct" -> FALSE
      [] t.kind = "Binary" ->
            NoStructOutsideParentheses(t.left) /\ NoStructOutsideParentheses(t.right)
      [] t.kind \in {"Prefix", "Postfix"} -> NoStructOutsideParentheses(t.inner)
      [] t.kind \in {"Call", "Property", "GenericArguments", "As"} ->
            NoStructOutsideParentheses(t.left)
      [] OTHER -> TRUE

\* The last operand of an expression made of binary and prefix operators.
RECURSIVE RightmostOperand(_)
RightmostOperand(t) ==
    CASE t.kind = "Binary" -> RightmostOperand(t.right)
      [] t.kind = "Prefix" -> RightmostOperand(t.inner)
      [] OTHER -> t

\* The condition of the file begins at place i with an operator application,
\* or is ( x { } ).
OperatorConditionAt(i) == tokens[i] = "!" \/ tokens[i + 1] \in {"+", "=="}

StructInParenthesesAt(i) == tokens[i] = "(" /\ tokens[i + 2] = "{"

\* C3: in a call with ignore_struct set no operand reached through a prefix or
\* a binary operator is a struct literal, the call stops at the `{` that
\* follows the last operand; inside parentheses a struct literal is parsed.
FlagThreading ==
    /\ (output.op = "ExpressionParser" /\ output.ignore_struct /\ output.ok)
          => NoStructOutsideParentheses(output.val)
    /\ (tokens \in BraceInputs /\ ~Headed /\ ParsedFromStart
            /\ output.precedence = Lowest /\ output.ignore_struct)
          => /\ OperatorConditionAt(1) =>
                    /\ output.val.kind \in {"Binary", "Prefix"}
                    /\ RightmostOperand(output.val) = Leaf(BodyAt - 1)
                    /\ next_token = Token("{", BodyAt)
             /\ StructInParenthesesAt(1) =>
                    /\ output.val.kind = "Parenthesized"
                    /\ output.val.inner.kind = "Struct"
                    /\ output.val.inner.left = Leaf(2)
                    /\ next_token = Token("{", BodyAt)
    /\ (tokens \in BraceInputs /\ tokens[1] \in {"if", "while"} /\ ParsedFromStart)
          => /\ output.ok
             /\ NoStructOutsideParentheses(ConditionOf(output.val))
             /\ OperatorConditionAt(2) =>
                    /\ ConditionOf(output.val).kind \in {"Binary", "Prefix"}
                    /\ RightmostOperand(ConditionOf(output.val)) = Leaf(BodyAt - 1)
             /\ StructInParenthesesAt(2) =>
                    /\ ConditionOf(output.val).kind = "Parenthesized"
                    /\ ConditionOf(output.val).inner.kind = "Struct"

\* C3 happens: in `if x + x { .. }` the right-hand side of + is x alone.
BinaryOperandStopsAtBrace ==
    /\ tokens \in BraceInputs
    /\ tokens[1] = "if"
    /\ tokens[3] = "+"
    /\ ParsedFromStart
    /\ output.ok
    /\ output.val.if_blocks[1][1] = BinaryOf(Leaf(2), 3, Leaf(4))

\* In a file .. { return expression .. : the place of `return`, the place after
\* the expression and the place where the parse fails (the expression goes on
\* as a call when `(` follows it, and fails at the first argument).
ReturnAt == CHOOSE i \in DOMAIN tokens :
                tokens[i] = "return" /\ \A j \in 1..(i - 1) : tokens[j] # "return"

AfterReturned ==
    IF TokenAt(tokens, ReturnAt + 2).raw = "*" THEN ReturnAt + 4 ELSE ReturnAt + 2

FailurePoint ==
    IF TokenAt(tokens, AfterReturned).raw = "(" THEN AfterReturned + 1 ELSE AfterReturned

NotFollowedBySemicolon == TokenAt(tokens, AfterReturned).raw # ";"

\* The last call parsed the return statement, a block that holds it or a
\* construct that encloses the block.
ParsedReturn ==
    /\ output.op \in ParseOperations
    /\ \/ output.op = "StatementParser" /\ output.start = ReturnAt
       \/ /\ output.start < ReturnAt
          /\ \A i \in output.start..(ReturnAt - 1) : tokens[i] = "{"
       \/ /\ output.start = 1
          /\ tokens[1] \in {"if", "("}
          /\ output.op # "StatementsBlockParser"

\* The diagnostics the last call appended.
Appended == {i \in DOMAIN diagnostics : i > output.before}

TreeIffNoStructuralDiagnostic ==
    output.op \in ParseOperations =>
        /\ output.ok <=> Appended \cap Structural(diagnostics) = {}
        /\ output.ok <=> output.val # NoneValue

\* C9 happens: a statement is returned as a tree although the call has appended
\* a lexical diagnostic.
TreeDespiteLexicalDiagnostic ==
    /\ output.op = "StatementParser"
    /\ output.ok
    /\ Appended # {}
    /\ \A i \in Appended : diagnostics[i].code = "E000"

\* C10, as stated: an error token does not give rise to a structural
\* diagnostic and does not make a parse return the empty result: no E001 is
\* about an error token.
LexicalNeverStructural ==
    \A i \in DOMAIN diagnostics :
        diagnostics[i].code = "E001" => diagnostics[i].got.raw # Error

(***************************************************************************)
(* Properties of the diagnostic sink (specification SpecParse).            *)
(***************************************************************************)
IsPrefix(s, t) == Len(s) <= Len(t) /\ SubSeq(t, 1, Len(s)) = s

\* C11: the diagnostic sequence is append-only: across every advance and every
\* call of a parser, failed ones included, the sequence before the call is a
\* prefix of the sequence after it.
AppendOnly == [][IsPrefix(diagnostics, diagnostics')]_vars

\* C11 happens: a block parse that found diagnostics in the sink has failed,
\* has appended to them, and its empty result has reached the caller.
FailedAfterEarlierDiagnostics ==
    /\ output.op = "StatementsBlockParser"
    /\ ~output.ok
    /\ output.before >= 1
    /\ Len(diagnostics) >= output.before + 2
    /\ diagnostics[1].code = "E000"

(***************************************************************************)
(* Properties of the list combinator (specification SpecList).             *)
(***************************************************************************)
\* The parse of a whole file as one expression.
ParseOf(src) == parse_using("ExpressionParser", <<src, new(src), Lowest, FALSE>>)

\* The elements of a call, a list expression or a tuple expression.
ItemsOf(t) == IF t.kind = "Call" THEN t.arguments.items ELSE t.elements.items

\* The place of the second of the two consecutive separators of Doubled.
SecondSeparator(d, es, k) == Len(d.open) + Len(Separated(SubSeq(es, 1, k))) + 2

\* C12: a list of n >= 1 elements with one trailing separator parses to the
\* same n elements as the list without it, appends no diagnostic and is read
\* to its end; with two consecutive separators the parse fails and appends one
\* structural diagnostic, about the second separator.
TrailingSeparator ==
    (ParsedFromStart /\ tokens \in SeparatorInputs) =>
        \A d \in Delimiters, es \in ElementSeqs :
            /\ tokens = Trailing(d, es) =>
                  /\ output.ok
                  /\ ParseOf(Plain(d, es)).ok
                  /\ ItemsOf(output.val) = ItemsOf(ParseOf(Plain(d, es)).val)
                  /\ Len(ItemsOf(output.val)) = Len(es)
                  /\ Appended = {}
                  /\ next_token.raw = EndOfFile
            /\ \A k \in 1..Len(es) :
                  tokens = Doubled(d, es, k) =>
                      /\ ~output.ok
                      /\ Cardinality(Appended \cap Structural(diagnostics)) = 1
                      /\ diagnostics[Len(diagnostics)].code = "E001"
                      /\ diagnostics[Len(diagnostics)].got =
                            Token(",", SecondSeparator(d, es, k))

\* C12 happens: f(a, b,) has been parsed to a call of two arguments.
TrailingSeparatorParsed ==
    /\ tokens = <<Identifier, "(", Identifier, ",", Identifier, ",", ")">>
    /\ ParsedFromStart
    /\ output.ok
    /\ output.val.kind = "Call"
    /\ output.val.arguments.items = <<Leaf(3), Leaf(5)>>

\* The closing delimiter of the constructs that call the list combinator.
ClosingOf(t) ==
    CASE t.kind = "Call" -> ")"
      [] t.kind = "Tuple" -> ")"
      [] t.kind = "Struct" -> "}"
      [] t.kind = "List" -> "]"
      [] t.kind = "Match" -> "}"

\* Every call, tuple, struct literal, list expression and match block of the
\* tree ends at its own closing delimiter: the advance of the caller consumed it.
RECURSIVE EndsAtClosing(_)
EndsAtClosing(t) ==
    CASE t.kind \in {"Call", "Struct"} ->
            /\ TokenAt(tokens, t.span[2]).raw = ClosingOf(t)
            /\ EndsAtClosing(t.left)
            /\ IF t.kind = "Call"
               THEN \A i \in DOMAIN t.arguments.items : EndsAtClosing(t.arguments.items[i])
               ELSE \A i \in DOMAIN t.fields.items :
                        t.fields.items[i].value.kind = "Some" =>
                            EndsAtClosing(t.fields.items[i].value.value)
      [] t.kind \in {"Tuple", "List"} ->
            /\ TokenAt(tokens, t.span[2]).raw = ClosingOf(t)
            /\ \A i \in DOMAIN t.elements.items : EndsAtClosing(t.elements.items[i])
      [] t.kind = "Match" ->
            /\ TokenAt(tokens, t.span[2]).raw = ClosingOf(t)
            /\ EndsAtClosing(t.expression)
            /\ \A i \in DOMAIN t.block.items : EndsAtClosing(t.block.items[i].right)
      [] t.kind = "Binary" -> EndsAtClosing(t.left) /\ EndsAtClosing(t.right)
      [] t.kind \in {"Parenthesized", "Prefix", "Postfix"} -> EndsAtClosing(t.inner)
      [] OTHER -> TRUE

RECURSIVE RunOverComments(_)
RunOverComments(i) ==
    IF i > Len(tokens) THEN <<>>
    ELSE IF tokens[i] = GlobalDocComment THEN <<i>> \o RunOverComments(i + 1)
    ELSE IF tokens[i] = Comment THEN RunOverComments(i + 1)
    ELSE <<>>

\* The module-level doc comments from place i on, up to the first token that
\* is not a module-level doc comment.
RECURSIVE ConsecutiveRun(_)
ConsecutiveRun(i) ==
    IF i > Len(tokens) THEN <<>>
    ELSE IF tokens[i] = GlobalDocComment THEN <<i>> \o ConsecutiveRun(i + 1)
    ELSE <<>>

\* C14, as stated: the string returned by consume_module_docstring is made of
\* the consecutive module-level doc-comment lines from `next` on; any other
\* line, a plain comment line included, ends the run.
RunEndsAtAnyOtherLine ==
    (output.op = "consume_module_docstring" /\ output.ok) =>
        output.val = ConsecutiveRun(output.start)

\* C14, amended: consume_module_docstring returns nothing when `next` is not a
\* module-level doc comment; otherwise it returns the texts, in source order,
\* of the module-level doc comments from `next` on, plain comments between
\* them being skipped, up to the first token of another kind (an item-level
\* doc comment included), which is left in `next`.
DocCommentAccumulation ==
    output.op = "consume_module_docstring" =>
        /\ output.ok <=> TokenAt(tokens, output.start).raw = GlobalDocComment
        /\ output.ok =>
              /\ output.val = RunOverComments(output.start)
              /\ current_token.loc = output.val[Len(output.val)]
              /\ next_token = Successor(current_token)
        /\ ~output.ok => output.val = NoneValue /\ next_token.loc = output.start
        /\ next_token.raw # GlobalDocComment

\* C14 happens: two module-level doc comments with a plain comment between
\* them have been returned as one string.
RunOverPlainComment ==
    /\ output.op = "consume_module_docstring"
    /\ output.ok
    /\ Len(output.val) = 2
    /\ \E i \in DOMAIN tokens :
          /\ output.val[1] < i
          /\ i < output.val[2]
          /\ tokens[i] = Comment

(***************************************************************************)
(* Properties of the precedence table (specification SpecPrecedence).      *)
(***************************************************************************)
\* The punctuators that map_precedences! lists.
TablePunctuators ==
    {"||", "&&", "|", "^", "=", "+=", "-=", "*=", "/=", "|=", "^=", "%=", "==", "!=",
     "<", "<=", ">", ">=", "<<", ">>", "[", "+", "-", "*", "/", "%", "(", ".", "~",
     "++", "--", "!", "?", "{"}

\* C15: the conversion gives every token kind one precedence level: As to the
\* keyword `as`, Lowest to every other keyword, to every kind that is not a
\* punctuator and to every punctuator that the table does not list, and a
\* level above As to every punctuator that it lists.
PrecedenceTotal ==
    output.op = "Precedence::from" =>
        /\ output.arg \in RawToken
        /\ output.precedence \in Lowest..Struct
        /\ output.arg = "as" => output.precedence = As
        /\ output.arg \in Keywords \ {"as"} => output.precedence = Lowest
        /\ output.arg \notin Keywords \cup Punctuators => output.precedence = Lowest
        /\ output.arg \in Punctuators \ TablePunctuators => output.precedence = Lowest
        /\ output.arg \in TablePunctuators => output.precedence > As

\* C15 happens: the keyword `as` has been converted, at the end of a file.
AsConverted ==
    /\ output.op = "Precedence::from"
    /\ output.arg = "as"
    /\ output.precedence = As
    /\ next_token.raw = EndOfFile

(***************************************************************************)
(* Properties of the reports (specification SpecParse).                    *)
(***************************************************************************)
\* The texts of a report: its message and the messages of its labels.
TextsOf(report) ==
    {report.message} \cup {report.labels[i].message : i \in DOMAIN report.labels}

\* The report tells the value v under the name f in one of its texts.
Tells(report, f, v) == \E text \in TextsOf(report) : f \in DOMAIN text /\ text[f] = v

\* C16, as stated: the report of every structural diagnostic, with or without
\* the offset, tells the offending token and points at it, tells the
\* acceptable alternatives and the construct being parsed, and points right
\* after the offset when there is one.
ReportedWithAll ==
    \A i \in Structural(diagnostics) :
        LET d == diagnostics[i]
            report == build(d)
        IN  /\ Tells(report, "found", d.got.raw)
            /\ \E l \in DOMAIN report.labels : report.labels[l].location = d.got.loc
            /\ Tells(report, "expected", d.expected)
            /\ Tells(report, "node", d.node)
            /\ d.offset # NoOffset =>
                  \E l \in DOMAIN report.labels :
                      report.labels[l].location = next_byte_location_at(d.offset)

(***************************************************************************)
(* Properties of the interner (specification SpecInterner).                *)
(***************************************************************************)
\* The builtin identifiers are interned when an IdentifierInterner is made.
IsBuiltin(string) ==
    /\ interner.S = "IdentifierID"
    /\ \E i \in DOMAIN BuiltinIdentifiers : BuiltinIdentifiers[i] = string

BuiltinSymbol(string) ==
    (CHOOSE i \in DOMAIN BuiltinIdentifiers : BuiltinIdentifiers[i] = string) - 1

\* The text was interned before: by a call, or as a builtin identifier.
InternedBefore(string) == IsBuiltin(string) \/ \E pair \in issued : pair[1] = string

\* C17: two calls of get_or_intern return the same symbol exactly when they
\* were given the same text (the symbol of a builtin identifier being its
\* place in the list); and a call with a text interned before returns the
\* symbol returned the first time and leaves len() as it is, whereas a call
\* with a new text adds one to len().
InterningIdempotentInjective ==
    /\ [](\A p \in issued, q \in issued : (p[1] = q[1]) <=> (p[2] = q[2]))
    /\ [](interner.S = "IdentifierID" =>
            \A p \in issued, i \in DOMAIN BuiltinIdentifiers :
                (p[1] = BuiltinIdentifiers[i]) <=> (p[2] = i - 1))
    /\ [][output'.op = "get_or_intern" =>
            IF InternedBefore(output'.arg)
            THEN /\ len(interner') = len(interner)
                 /\ interner' = interner
                 /\ IsBuiltin(output'.arg) => output'.val = BuiltinSymbol(output'.arg)
                 /\ \A p \in issued : p[1] = output'.arg => p[2] = output'.val
            ELSE len(interner') = len(interner) + 1]_vars

\* C17 happens: the text interned first has been interned again, after two
\* other texts, and got its first symbol.
InternedAgain ==
    /\ interner.S = "usize"
    /\ output.op = "get_or_intern"
    /\ output.arg = <<"a">>
    /\ output.val = 0
    /\ Cardinality(issued) = 3
    /\ len(interner) = 3

\* The symbols that name a text: the ones get_or_intern returned and the ones
\* of the builtin identifiers.
SymbolsIssued ==
    {pair[2] : pair \in issued}
        \cup (IF interner.S = "IdentifierID"
              THEN {i - 1 : i \in DOMAIN BuiltinIdentifiers} ELSE {})

\* The text a symbol was given for.
TextOf(symbol) ==
    IF \E pair \in issued : pair[2] = symbol
    THEN (CHOOSE pair \in issued : pair[2] = symbol)[1]
    ELSE BuiltinIdentifiers[symbol + 1]

\* The symbol a text was given.
SymbolOf(string) ==
    IF \E pair \in issued : pair[1] = string
    THEN (CHOOSE pair \in issued : pair[1] = string)[2]
    ELSE BuiltinSymbol(string)

\* The round trip of the symbols that have a storage index: every symbol
\* get_or_intern has returned resolves to the text it was returned for, the
\* empty text and the text interned first included, and so does every builtin
\* identifier; a symbol never given out that has a storage index resolves to
\* nothing; get gives the symbol of a text that was interned and nothing for
\* any other text.
RoundTripIndexed ==
    /\ \A pair \in issued : resolve(interner, pair[2]) = SomeValue(pair[1])
    /\ output.op = "get_or_intern" => resolve(interner, output.val) = SomeValue(output.arg)
    /\ output.op = "resolve" =>
          IF output.arg \in SymbolsIssued
          THEN output.val = SomeValue(TextOf(output.arg))
          ELSE ~Overflows(interner.S, output.arg) => output.val = NoneValue
    /\ output.op = "get" =>
          IF InternedBefore(output.arg)
          THEN output.val = SomeValue(SymbolOf(output.arg))
          ELSE output.val = NoneValue

\* C18: resolve(get_or_intern(s)) returns s for every text s, the empty text and
\* the text interned first included, and keeps returning s after later
\* get_or_intern calls; resolve of a symbol that was never given out returns
\* nothing; get(t) returns the symbol of t exactly when t has been interned and
\* nothing otherwise.
RoundTrip ==
    /\ RoundTripIndexed
    /\ (output.op = "resolve" /\ output.arg \notin SymbolsIssued) => output.val = NoneValue

(***************************************************************************)
(* Properties of the path interner (specification SpecInterner).           *)
(***************************************************************************)
\* DUMMY_PATH_ID
DUMMY_PATH_ID == 0

\* C20: in a PathInterner, get_or_intern never returns DUMMY_PATH_ID and the
\* hash map never holds it; the n-th path interned gets the ID n, so that the
\* IDs given out are 1..n; and each of them resolves to its own path.
DummyPathNeverIssued ==
    /\ [](interner.S = "PathID" =>
            /\ DUMMY_PATH_ID \notin interner.dedup
            /\ \A pair \in issued : pair[2] # DUMMY_PATH_ID
            /\ {pair[2] : pair \in issued} = 1..Cardinality(issued)
            /\ \A pair \in issued : resolve(interner, pair[2]) = SomeValue(pair[1])
            /\ get(interner, <<>>) # SomeValue(DUMMY_PATH_ID))
    /\ [][(interner.S = "PathID" /\ output'.op = "get_or_intern") =>
            /\ output'.val # DUMMY_PATH_ID
            /\ ~InternedBefore(output'.arg) => output'.val = Cardinality(issued) + 1]_vars

\* C20 happens: three paths have been interned, the empty one first, and got
\* the IDs 1, 2 and 3.
ThreePathsInterned ==
    /\ interner.S = "PathID"
    /\ <<<<>>, 1>> \in issued
    /\ {pair[2] : pair \in issued} = {1, 2, 3}
    /\ output.op = "get_or_intern"
    /\ output.val = 3

(***************************************************************************)
(* Properties of the shared interner (specification SpecShared).           *)
(***************************************************************************)
\* The threads inside the write of a new text.
Writing ==
    {t \in Threads :
        threads[t].pc \in {"lookup", "push_str", "push_end", "insert", "return"}}

\* The threads that hold the read lock.
Reading == {t \in Threads : threads[t].pc \in {"resolve_owned", "resolved"}}

\* C19: in every interleaving of the threads' calls of IdentifierID::from and
\* IdentifierID::resolve, two calls of from return the same ID exactly when
\* they were given the same text, a builtin identifier gets its predefined ID,
\* and a call of resolve for an ID that a call of from had returned before
\* yields exactly the text of that call; no thread reads the interner while
\* another writes it, and every ID returned resolves to its text from then on.
SharedConsistent ==
    /\ \A p \in issued, q \in issued : (p[1] = q[1]) <=> (p[2] = q[2])
    /\ \A p \in issued, i \in DOMAIN BuiltinIdentifiers :
          (p[1] = BuiltinIdentifiers[i]) <=> (p[2] = i - 1)
    /\ \A p \in issued : resolve(interner, p[2]) = SomeValue(p[1])
    /\ \A t \in Threads :
          (threads[t].pc = "resolved" /\ threads[t].known # {}) =>
              /\ threads[t].result.kind = "Some"
              /\ threads[t].known = {threads[t].result.value}
    /\ Cardinality(Writing) <= 1
    /\ Writing # {} => Reading = {}

\* C19 happens: one thread has resolved the ID that from returned for "a"
\* while the other, a second call of from("ab"), waits for the lock; "a" and
\* "ab" have been interned and share the storage.
ResolvedWhileOtherWaits ==
    /\ \E t \in Threads, u \in Threads :
          /\ threads[t].pc = "resolved"
          /\ threads[t].known = {<<"a">>}
          /\ threads[t].result = SomeValue(<<"a">>)
          /\ threads[u].pc = "write"
          /\ threads[u].text = <<"a", "b">>
    /\ \E p \in issued : p[1] = <<"a", "b">>
    /\ output.op = "IdentifierID::from"

(***************************************************************************)
(* Properties of the file storage (specification SpecStorage).             *)
(***************************************************************************)
\* C21: once read_and_add_file_if_not_exists_or_panic has returned for a path
\* ID, resolve_file of that path ID yields a file: the file read by the call
\* when the storage had none for it, the file it had otherwise.
ReadAndAddedIfNotExists ==
    [][(/\ output'.op = "read_and_add_file_if_not_exists_or_panic"
        /\ output'.val # Panic)
          => /\ resolve_file(storage', output'.arg) # NoneValue
             /\ resolve_file(storage', output'.arg) =
                   IF contains_key(storage, output'.arg)
                   THEN SomeValue(storage[output'.arg])
                   ELSE SomeValue(output'.val)]_vars

(***************************************************************************)
(* Properties of the module context (specification SpecContext).           *)
(***************************************************************************)
Named(i) == module[i].kind \notin {"Impl", "Import"}

\* The places of the items that define the name of the item at j before it.
Earlier(j) == {i \in 1..(j - 1) : Named(i) /\ module[i].name = module[j].name}

\* The places of the named items whose name an earlier item defines.
Redefinitions == {j \in DOMAIN module : Named(j) /\ Earlier(j) # {}}

Max(S) == CHOOSE x \in S : \A y \in S : y <= x

IsImpl(item) == item.kind = "Impl"
IsImport(item) == item.kind = "Import"

Built == context # NoContext

\* C22: the module context built from a module has one diagnostic for every
\* named item whose name an earlier item of the module defines, in the order
\* of the items, and no other; the diagnostic pairs the item with the nearest
\* earlier definition of its name; every name is bound to its last
\* definition; the impls and the imports are the ones of the module, in the
\* order of the module.
DuplicateDefinitions ==
    Built =>
        /\ Len(diagnostics) = Cardinality(Redefinitions)
        /\ \A j \in Redefinitions :
              \E d \in DOMAIN diagnostics :
                  /\ diagnostics[d].diagnostic = "ItemDefinedMultipleTimes"
                  /\ diagnostics[d].name = module[j].name
                  /\ diagnostics[d].second = DefinitionInfo(module[j])
                  /\ diagnostics[d].first = DefinitionInfo(module[Max(Earlier(j))])
                  /\ d = Cardinality({k \in Redefinitions : k <= j})
        /\ DOMAIN context.bindings = {module[i].name : i \in {j \in DOMAIN module : Named(j)}}
        /\ \A i \in DOMAIN module :
              (Named(i) /\ ~\E j \in DOMAIN module : j > i /\ i \in Earlier(j)) =>
                  context.bindings[module[i].name] = NotAnalyzed(module[i])
        /\ context.implementations = SelectSeq(module, IsImpl)
        /\ context.imports = SelectSeq(module, IsImport)

\* C22 happens: a module of three definitions of one name has been built: two
\* diagnostics, the second of which pairs the third definition with the second.
ThreeDefinitionsOfOneName ==
    /\ Built
    /\ Len(module) = 3
    /\ \A i \in DOMAIN module : Named(i) /\ module[i].name = "f"
    /\ Len(diagnostics) = 2
    /\ diagnostics[2].first.location = 2
    /\ diagnostics[2].second.location = 3
    /\ context.bindings["f"].item.location = 3

(***************************************************************************)
(* Properties of blocks (specification SpecBlock).                         *)
(***************************************************************************)
\* The statement is an expression that does not end in a block and has no `;`.
IsTail(s) == s.kind = "Expression" /\ ~with_block(s.expression) /\ ~s.has_semicolon

\* The tokens that cannot follow an operand inside an expression and are
\* neither `;` nor `}`.
Others == {Identifier, ")", Error, EndOfFile}

\* The file is a block whose complete statements are followed by an operand
\* and then by a token of Others; the place of that token.
OtherAfterTail ==
    {Len(p) + 3 : p \in {q \in Prefixes :
        /\ IsPrefix(<<"{">> \o q \o Operand, tokens)
        /\ TokenAt(tokens, Len(q) + 3).raw \in Others}}

BlockParsedFromStart == output.op = "StatementsBlockParser" /\ output.start = 1

\* C23: in a block that was parsed, an expression statement that does not end
\* in a block and has no `;` is the last statement and the closing `}` is the
\* token right after it; a block where such an expression is followed by a
\* token other than `;` and `}` fails with one unexpected-token diagnostic,
\* about that token; an expression statement that ends in a block is never the
\* tail and takes no `;` (the window stays on its own `}`), any other one is
\* the tail exactly when no `;` follows it, and takes the `;` that does.
TailExpressionRule ==
    /\ (output.op = "StatementsBlockParser" /\ output.ok) =>
          \A i \in DOMAIN output.val.statements :
              IsTail(output.val.statements[i]) =>
                  /\ i = Len(output.val.statements)
                  /\ current_token.raw = "}"
                  /\ current_token.loc = output.val.statements[i].expression.span[2] + 1
    /\ (BlockParsedFromStart /\ OtherAfterTail # {}) =>
          /\ ~output.ok
          /\ Cardinality(Appended \cap Structural(diagnostics)) = 1
          /\ \A i \in Appended \cap Structural(diagnostics) :
                /\ diagnostics[i].got.loc \in OtherAfterTail
                /\ diagnostics[i].expected = <<"}">>
    /\ (output.op = "StatementParser" /\ output.ok
          /\ output.val.statement.kind = "Expression") =>
          LET s == output.val.statement
          IN  IF with_block(s.expression)
              THEN /\ ~output.val.last_expression_in_block
                   /\ ~s.has_semicolon
                   /\ current_token.raw = "}"
                   /\ current_token.loc = s.expression.span[2]
              ELSE /\ output.val.last_expression_in_block <=> ~s.has_semicolon
                   /\ s.has_semicolon <=> current_token.raw = ";"
                   /\ next_token.raw # ";" \/ s.has_semicolon
                   /\ current_token.loc = s.expression.span[2] + (IF s.has_semicolon THEN 1 ELSE 0)

\* C23 happens: a block of three statements has been parsed: an if expression
\* with no `;`, an expression with its `;`, and the tail.
BlockWithTailParsed ==
    /\ BlockParsedFromStart
    /\ output.ok
    /\ Len(output.val.statements) = 3
    /\ with_block(output.val.statements[1].expression)
    /\ ~output.val.statements[1].has_semicolon
    /\ output.val.statements[2].has_semicolon
    /\ IsTail(output.val.statements[3])

\* The file ends inside its block: after `{`, after a complete statement, after
\* a skipped `;`, or after the last expression.
EndsInsideBlock ==
    \E p \in Prefixes, l \in {<<>>, Operand, Operand \o <<"+">> \o Operand, <<"{", "}">>} :
        tokens = <<"{">> \o p \o l

\* C24: the parse of a block that the file ends inside of returns the empty
\* result and appends exactly one unexpected-token diagnostic, which is about
\* the end of the file and expects `}`; and a block parse that returns a block
\* has consumed its `}`.
EndOfFileInsideBlock ==
    /\ (BlockParsedFromStart /\ EndsInsideBlock) =>
          /\ ~output.ok
          /\ output.val = NoneValue
          /\ Cardinality(Appended \cap Structural(diagnostics)) = 1
          /\ Appended \cap Structural(diagnostics) = {Len(diagnostics)}
          /\ diagnostics[Len(diagnostics)].got = Token(EndOfFile, Len(tokens) + 1)
          /\ diagnostics[Len(diagnostics)].expected = <<"}">>
          /\ next_token.raw = EndOfFile
    /\ (output.op = "StatementsBlockParser" /\ output.ok) =>
          /\ current_token.raw = "}"
          /\ current_token.loc \in DOMAIN tokens
          /\ Appended \cap Structural(diagnostics) = {}

\* C24 happens: the file ends after a statement and a skipped `;`; the parse of
\* its block has failed with the diagnostic placed after that `;`.
UnclosedAfterSkippedSemicolon ==
    /\ BlockParsedFromStart
    /\ tokens = <<"{", Identifier, ";", ";">>
    /\ ~output.ok
    /\ Len(diagnostics) = 1
    /\ diagnostics[1].offset = end_of(Token(";", 4))
    /\ diagnostics[1].got.raw = EndOfFile

(***************************************************************************)
(* Properties of if chains (specification SpecIf).                         *)
(***************************************************************************)
\* The tokens the call consumed.
Consumed == {i \in DOMAIN tokens : output.start <= i /\ i <= current_token.loc}

\* The places of the `if` tokens and of the `else` tokens with no `if` after
\* them that the call consumed, in order.
ConsumedIfs == {i \in Consumed : tokens[i] = "if"}

ConsumedElses == {i \in Consumed : tokens[i] = "else" /\ TokenAt(tokens, i + 1).raw # "if"}

\* The k-th smallest element of a set of places.
Nth(S, k) == CHOOSE x \in S : Cardinality({y \in S : y <= x}) = k

IfParsed == output.op = "ExpressionParser" /\ output.ok /\ output.val.kind = "If"

\* C25: an if expression that was parsed holds one (condition, block) pair for
\* every `if` consumed, in the order of the file, the k-th condition starting
\* right after the k-th `if`; it has an else block exactly when an `else` with
\* no `if` after it was consumed, there is at most one such `else`, and it
\* comes after every condition; the chain ends with that else block, so that
\* an `else` after it is left in `next`; no condition is a struct literal, the
\* `{` after it being the block's.  Every if chain of the bounds is parsed.
IfChainShape ==
    /\ (output.op = "ExpressionParser" /\ output.start = 1) => IfParsed
    /\ IfParsed =>
          /\ Len(output.val.if_blocks) >= 1
          /\ Len(output.val.if_blocks) = Cardinality(ConsumedIfs)
          /\ \A k \in DOMAIN output.val.if_blocks :
                /\ output.val.if_blocks[k][1].span[1] = Nth(ConsumedIfs, k) + 1
                /\ ~SpineHasStruct(output.val.if_blocks[k][1])
                /\ tokens[output.val.if_blocks[k][1].span[2] + 1] = "{"
                /\ output.val.if_blocks[k][2].kind = "Block"
          /\ Cardinality(ConsumedElses) <= 1
          /\ (output.val.else # NoneValue) <=> (ConsumedElses # {})
          /\ \A e \in ConsumedElses :
                /\ output.val.else.value.kind = "Block"
                /\ \A k \in DOMAIN output.val.if_blocks :
                      output.val.if_blocks[k][1].span[2] < e
                /\ \A i \in Consumed : i > e => tokens[i] \notin {"if", "else"}
                /\ TokenAt(tokens, current_token.loc + 1).raw = "else" =>
                      next_token = Token("else", current_token.loc + 1)
          /\ current_token.raw = "}"
          /\ output.val.span = Span(output.start, current_token.loc)

\* C25 happens: if, else if, else and one more else with a block: the chain of
\* two pairs and the else block has been parsed and the second `else` is `next`.
SecondElseLeft ==
    /\ IfParsed
    /\ output.start = 1
    /\ Len(output.val.if_blocks) = 2
    /\ output.val.else # NoneValue
    /\ next_token.raw = "else"
    /\ TokenAt(tokens, next_token.loc + 1).raw = "{"

(***************************************************************************)
(* The loops of the parsers, one pass at a time: the precedence loop of    *)
(* ExpressionParser, the `else` loop of IfExpressionParser, the statement  *)
(* loop of StatementsBlockParser and the loops of the docstrings.  A pass  *)
(* starts at the head of the loop, where its condition is read, and either *)
(* leaves the loop or comes back to the head with what it has gathered.    *)
(***************************************************************************)
MaxLoopLen == 3

\* A loop is at its head.
Iterating == output.arg = "iterating"

\* What a loop holds: the tree of the precedence loop, the pairs of the `else`
\* loop, the statements of the block, the string of the docstring, and how
\* many passes it has made.  A loop that is left holds what it returns.
Holds(field, value, passes) ==
    [f \in {"tree", "if_blocks", "block", "string", "passes"} |->
        IF f = field THEN value
        ELSE IF f = "tree" THEN NoneValue
        ELSE IF f = "passes" THEN passes
        ELSE <<>>]

\* The passes the loop at its head has made.
Passes == IF Iterating THEN output.val.passes ELSE 0

\* The loop `op` is at its head after the pass r, or has been left by it.
LoopBecomes(op, precedence, ignore_struct, start, gathers, returns, passes, r) ==
    /\ Becomes(r.st)
    /\ advanced' = (advanced \/ r.st.next_token # next_token)
    /\ output' = [op |-> op, arg |-> IF r.continues THEN "iterating" ELSE "exited",
                  precedence |-> precedence, ignore_struct |-> ignore_struct,
                  start |-> start, before |-> Len(diagnostics), ok |-> r.ok,
                  val |-> IF r.continues THEN Holds(gathers, r.val, passes)
                          ELSE IF r.ok THEN Holds(returns, r.val, passes)
                          ELSE Holds("tree", NoneValue, passes)]

\* The runs are bounded: no loop is taken round more than once for each token
\* of the file and once more.
LoopRoom == Passes <= Len(tokens)

LoopAlphabet == {Identifier, "+", "{", "}", ";"}

\* Files that take each loop round more than once: `a + a + a`, an `if` with
\* two `else if` and an `else`, `if` chains cut short by the end of the file, a
\* block of three statements, three lines of each docstring.
LongLoops ==
    {<<Identifier, "+", Identifier, "+", Identifier>>,
     <<"if", Identifier, "{", "}", "else", "if", Identifier, "{", "}",
       "else", "if", Identifier, "{", "}", "else", "{", "}">>,
     <<"if", Identifier, "{", "}", "else">>,
     <<"if", Identifier, "{", "}", "else", "if", Identifier>>,
     <<"if", Identifier, "{", "}", "else", "if", Identifier, "{", "}">>,
     <<"{", Identifier, ";", ";", Identifier, ";", Identifier, "}">>,
     <<GlobalDocComment, GlobalDocComment, GlobalDocComment, LocalDocComment,
       LocalDocComment, LocalDocComment>>}

LoopInputs == LongLoops \cup SeqsOver(LoopAlphabet, MaxLoopLen)

InitLoops == \E src \in LoopInputs : InitOf(src)

\* The window moves on between two loops.
DoLoopAdvance ==
    /\ ~Iterating
    /\ ParseRoom
    /\ Becomes(advance(tokens, state))
    /\ advanced' = TRUE
    /\ output' = [Called("advance", "", Lowest, FALSE, Some(state, Unit))
                     EXCEPT !.val = Holds("tree", NoneValue, 0)]

\* ExpressionParser: the primary expression when the loop is called, a pass
\* when it is at its head.
DoExpressionLoop ==
    \E precedence \in ParsePrecedences, ignore_struct \in BOOLEAN :
        /\ IF Iterating
           THEN /\ LoopRoom
                /\ output.op = "ExpressionLoop"
                /\ output.precedence = precedence
                /\ output.ignore_struct = ignore_struct
           ELSE ParseRoom
        /\ \E pass \in {parse_using(
                            IF Iterating THEN "ExpressionIteration" ELSE "ExpressionHead",
                            IF Iterating
                            THEN <<tokens, state, precedence, ignore_struct,
                                   output.start, output.val.tree>>
                            ELSE <<tokens, state, ignore_struct>>)} :
              LoopBecomes("ExpressionLoop", precedence, ignore_struct,
                          IF Iterating THEN output.start ELSE start_of(next_token),
                          "tree", "tree", IF Iterating THEN Passes + 1 ELSE 0, pass)

\* IfExpressionParser: `if`, a condition and a block when the loop is called,
\* a pass when it is at its head.
DoIfElseLoop ==
    /\ IF Iterating
       THEN LoopRoom /\ output.op = "IfElseLoop"
       ELSE ParseRoom /\ next_token.raw = "if"
    /\ \E pass \in {parse_using(
                        IF Iterating THEN "IfElseIteration" ELSE "IfElseHead",
                        IF Iterating
                        THEN <<tokens, state, output.start, output.val.if_blocks>>
                        ELSE <<tokens, state>>)} :
          LoopBecomes("IfElseLoop", Lowest, FALSE,
                      IF Iterating THEN output.start ELSE start_of(next_token),
                      "if_blocks", "tree", IF Iterating THEN Passes + 1 ELSE 0, pass)

\* StatementsBlockParser, up to the head of its loop: `{`.
EnterStatementsBlockLoop ==
    /\ ~Iterating
    /\ ParseRoom
    /\ \E open \in {consume(tokens, state, "{", "statements block")} :
          \E pass \in {IF open.ok THEN Iterates(open.st, <<>>)
                       ELSE Exits(Failed(open))} :
              LoopBecomes("StatementsBlockLoop", Lowest, FALSE, start_of(next_token),
                          "block", "tree", 0, pass)

IterateStatementsBlockLoop ==
    /\ Iterating
    /\ LoopRoom
    /\ output.op = "StatementsBlockLoop"
    /\ \E pass \in {parse_using("StatementsBlockIteration",
                         <<tokens, state, output.val.block>>)} :
          LoopBecomes("StatementsBlockLoop", Lowest, FALSE, output.start, "block",
                      "tree", Passes + 1, pass)

\* consume_module_docstring and consume_local_docstring, up to the head of the
\* loop: `next` is a doc comment of the kind, the string is empty.
EnterDocstringLoop ==
    \E kind \in {GlobalDocComment, LocalDocComment} :
        /\ ~Iterating
        /\ ParseRoom
        /\ \E pass \in {IF next_token.raw = kind THEN Iterates(state, <<>>)
                         ELSE Exits(None(state))} :
              LoopBecomes(kind, Lowest, FALSE, start_of(next_token), "string",
                          "string", 0, pass)

IterateDocstringLoop ==
    /\ Iterating
    /\ LoopRoom
    /\ output.op \in {GlobalDocComment, LocalDocComment}
    /\ \E pass \in {DocstringIteration(tokens, state, output.op,
                                       output.val.string)} :
          LoopBecomes(output.op, Lowest, FALSE, output.start, "string", "string",
                      Passes + 1, pass)

NextLoops ==
    \/ DoLoopAdvance
    \/ DoExpressionLoop
    \/ DoIfElseLoop
    \/ EnterStatementsBlockLoop
    \/ IterateStatementsBlockLoop
    \/ EnterDocstringLoop
    \/ IterateDocstringLoop

SpecLoops == InitLoops /\ [][NextLoops]_vars

\* A pass that comes back to the head of its loop has consumed a token.
PassConsumes ==
    [][(Iterating /\ Iterating') => next_token'.loc > next_token.loc]_vars

\* No loop goes round once `next` is the end of the file.
NoPassAtEndOfFile ==
    [][(Iterating /\ next_token.raw = EndOfFile) => ~Iterating']_vars

\* The loops taken whole are their passes taken one after the other.
Gathered == [kind |-> "Identifier", span |-> Span(0, 0)]

LoopsArePasses ==
    /\ \A precedence \in ParsePrecedences, ignore_struct \in BOOLEAN :
          LET pass == ExpressionIteration(tokens, state, precedence, ignore_struct,
                                          0, Gathered)
          IN  ExpressionLoop(tokens, state, precedence, ignore_struct, 0, Gathered)
                = IF pass.continues
                  THEN ExpressionLoop(tokens, pass.st, precedence, ignore_struct,
                                      0, pass.val)
                  ELSE [st |-> pass.st, ok |-> pass.ok, val |-> pass.val]
    /\ LET pass == IfElseIteration(tokens, state, 0, <<>>)
       IN  IfElseLoop(tokens, state, 0, <<>>)
             = IF pass.continues THEN IfElseLoop(tokens, pass.st, 0, pass.val)
               ELSE [st |-> pass.st, ok |-> pass.ok, val |-> pass.val]
    /\ LET pass == StatementsBlockIteration(tokens, state, <<>>)
       IN  StatementsBlockLoop(tokens, state, <<>>)
             = IF pass.continues THEN StatementsBlockLoop(tokens, pass.st, pass.val)
               ELSE [st |-> pass.st, ok |-> pass.ok, val |-> pass.val]
    /\ \A kind \in {GlobalDocComment, LocalDocComment} :
          LET pass == DocstringIteration(tokens, state, kind, <<>>)
          IN  DocstringLoop(tokens, state, kind, <<>>)
                = IF pass.continues THEN DocstringLoop(tokens, pass.st, kind, pass.val)
                  ELSE [st |-> pass.st, ok |-> pass.ok, val |-> pass.val]

\* A loop has made no more passes than it has consumed tokens since it was
\* called, and so no more than the file has tokens.
PassesBounded ==
    /\ Passes <= next_token.loc - output.start
    /\ Passes <= Len(tokens)

\* C26: every loop of the parsers ends, with a tree or with nothing: a pass
\* that does not leave its loop has consumed a token, no pass goes round when
\* `next` is the end of the file, and so a loop makes no more passes than the
\* file has tokens.
LoopsTerminate ==
    /\ PassConsumes
    /\ NoPassAtEndOfFile
    /\ [](LoopsArePasses)
    /\ [](PassesBounded)

\* The precedence loop has gone round and has been left at the end of the file.
PrecedenceLoopLeftAtEndOfFile ==
    /\ output.op = "ExpressionLoop"
    /\ output.arg = "exited"
    /\ output.ok
    /\ output.val.tree.kind = "Binary"
    /\ next_token.raw = EndOfFile

(***************************************************************************)
(* Operators of one level (specification SpecParse).                       *)
(***************************************************************************)
\* The levels of the table that have a binary operator.
BinaryLevels == {to_precedence(raw) : raw \in TableBinaryOperators}

\* C27: two binary operators of the same level of the table group to the
\* left: a OP1 b OP2 c parsed at Lowest is (a OP1 b) OP2 c, whole, for every
\* level that has a binary operator, Assign among them.
LeftAssociativity ==
    /\ Assign \in BinaryLevels
    /\ (ParsedTwoOperators /\ to_precedence(tokens[2]) = to_precedence(tokens[4])) =>
          /\ output.ok
          /\ output.val = BinaryOf(BinaryOf(Leaf(1), 2, Leaf(3)), 4, Leaf(5))
          /\ next_token.raw = EndOfFile

\* C27 happens: a = b = c was parsed, and the first assignment is the
\* left-hand side of the second.
ChainedAssignmentParsed ==
    /\ ParsedTwoOperators
    /\ tokens[2] = "="
    /\ tokens[4] = "="
    /\ output.ok
    /\ output.val.left.kind = "Binary"
    /\ output.val.right.kind = "Identifier"

(***************************************************************************)
(* The prefix specification: a prefix operator, its operand and one        *)
(* continuation, parsed from any token of the file.                        *)
(***************************************************************************)
PrefixOperators == {raw \in Punctuators : prefix_operator(raw)}

PostfixOperators == {raw \in Punctuators : postfix_operator(raw)}

\* What may follow the operand: nothing, a property, a call with or without
\* an argument, generic arguments, a postfix operator, a cast, a binary
\* operator and its right-hand side, the fields of a struct literal.
Continuations ==
    {<<>>, <<".", Identifier>>, <<"(", ")">>, <<"(", Identifier, ")">>,
     <<"[", Identifier, "]">>, <<"as", Identifier>>, <<"{", "}">>}
        \cup {<<raw>> : raw \in PostfixOperators}
        \cup {<<raw, Identifier>> : raw \in TableBinaryOperators}

\* OP a continuation
PrefixInputs ==
    {<<op>> \o Operand \o continuation :
        op \in PrefixOperators, continuation \in Continuations}

InitPrefix == \E src \in PrefixInputs : InitOf(src)

NextPrefix ==
    \/ DoParseAdvance
    \/ DoParseExpression

SpecPrefix == InitPrefix /\ [][NextPrefix]_vars

\* The file was parsed from its first token, the prefix operator, at minimum
\* precedence Lowest, and a tree was returned.
ParsedPrefix ==
    /\ output.op = "ExpressionParser"
    /\ output.start = 1
    /\ output.precedence = Lowest
    /\ output.ok

\* OP a as a whole: the prefix expression of the first two tokens.
PrefixOfOperand ==
    [kind |-> "Prefix", span |-> Span(1, 2), inner |-> Leaf(2),
     operator |-> Token(tokens[1], 1)]

\* The node a continuation makes.
ContinuationKind(raw) ==
    CASE raw = "." -> "Property"
      [] raw = "(" -> "Call"
      [] raw = "[" -> "GenericArguments"
      [] raw = "as" -> "As"
      [] raw = "{" -> "Struct"
      [] raw \in PostfixOperators -> "Postfix"
      [] OTHER -> "Binary"

\* What the node of a continuation is applied to.
AppliedTo(expression) ==
    IF expression.kind = "Postfix" THEN expression.inner ELSE expression.left

\* C28: the operand of a prefix operator is extended by a struct literal
\* alone; a call, a property access, generic arguments, a postfix operator, a
\* cast or a binary operator that follows is applied to the whole prefix
\* expression, and every such file is parsed.
PrefixBinding ==
    /\ (output.op = "ExpressionParser" /\ output.start = 1) => output.ok
    /\ ParsedPrefix =>
          IF Len(tokens) = 2 \/ (tokens[3] = "{" /\ output.ignore_struct)
          THEN output.val = PrefixOfOperand
          ELSE IF tokens[3] = "{"
          THEN /\ output.val.kind = "Prefix"
               /\ output.val.operator = Token(tokens[1], 1)
               /\ output.val.inner.kind = "Struct"
               /\ output.val.inner.left = Leaf(2)
          ELSE /\ output.val.kind = ContinuationKind(tokens[3])
               /\ AppliedTo(output.val) = PrefixOfOperand
               /\ next_token.raw = EndOfFile

\* C28 happens: -a.b was parsed and the property is taken of -a.
PropertyOfPrefixParsed ==
    /\ ParsedPrefix
    /\ tokens = <<"-", Identifier, ".", Identifier>>
    /\ output.val.kind = "Property"
    /\ output.val.left.kind = "Prefix"

(***************************************************************************)
(* Spans (specification SpecPrefix).                                       *)
(***************************************************************************)
\* The last call parsed an expression and returned its tree.
ExpressionParsed == output.op = "ExpressionParser" /\ output.ok

\* From the start of the first token of the expression to the end of the last
\* token consumed for it, which is `current` when the parser returns.
Covered == Span(output.start, end_of(current_token))

\* The nodes whose span is not taken from `start` to `current` once all their
\* tokens are consumed.
ShortSpanned == {"Property", "Parenthesized", "List"}

\* The span covers the expression unless its node is one of these.
SpanCoverageButShortSpanned ==
    (ExpressionParsed /\ output.val.kind \notin ShortSpanned) =>
        output.val.span = Covered

\* C29: the span of the node of a parsed expression runs from the start of its
\* first token to the end of the last token consumed for it.
SpanCoverage == ExpressionParsed => output.val.span = Covered

(***************************************************************************)
(* The assignment punctuators (specification SpecPrecedence).              *)
(***************************************************************************)
\* The assignment punctuators of the punctuator set.
AssignmentPunctuators == {"=", "+=", "-=", "*=", "/=", "%=", "|=", "^=", "&="}

\* The level of an assignment punctuator is Assign, and the precedence loop
\* called at Lowest goes on when it is met.
AssignmentLevelOf(punctuators) ==
    (output.op = "Precedence::from" /\ output.arg \in punctuators) =>
        /\ output.precedence = Assign
        /\ Continues(Lowest, output.arg)

\* The assignment punctuators but `&=` are at the level Assign.
AssignmentLevelButAmpersandEq == AssignmentLevelOf(AssignmentPunctuators \ {"&="})

\* C30: every assignment punctuator of the punctuator set is at the level
\* Assign, and so continues an expression in the precedence loop called at
\* Lowest.
AssignmentLevel == AssignmentLevelOf(AssignmentPunctuators)

====
